---- MODULE Spec2Model ----
(***************************************************************************)
(* A model of the VLIW470 scheduler: dependency analysis over the three    *)
(* basic blocks of a RISC program (risc_ds.py), list and modulo placement  *)
(* of the instructions into bundles (vliw_ds.py), the II search            *)
(* (scheduler.py), register renaming with its fix-up moves                 *)
(* (register_renaming.py) and the compression of the pipelined body.       *)
(*                                                                         *)
(* Indices are the Python indices (0-based); the TLA+ sequences that hold  *)
(* lists are read at index + 1.  Python's None is the value None below.    *)
(* A RegisterDependency is modelled as vliw_ds.py and register_renaming.py *)
(* read it: reg_tag an integer (risc_ds.py:17) and producers_idx the list  *)
(* of the producer indices in the order the finders return them.           *)
(***************************************************************************)
EXTENDS Integers, Sequences, FiniteSets, TLC

\* Bound of the model: the number of RISC instructions of an input program
\* (the loop instruction itself is not stored and not counted).
MaxLen == 3

None == -2

Max(S) == CHOOSE x \in S : \A y \in S : y <= x
Min(S) == CHOOSE x \in S : \A y \in S : x <= y

VARIABLES
    input_file_content,  \* main: the list of operations read from the input file
    risc,                \* RiscProgram: program, BB1_start, BB2_start, register_dependencies
    has_loop,            \* load_from_list: the instruction list has a loop instruction
    vliw,                \* VliwProgram: program, risc_pos_to_vliw_pos, unavailable_slots, ...
    entry,               \* the operation sequence the client runs on the program
    pc,                  \* position of the client in that sequence
    err,                 \* the exception that ended the run and the function that
                         \* raised it ("" when none)
    idx,                 \* index of the RISC instruction the block loop is at
    schedule_start_pos,  \* local of the block loop: first bundle of the block
    loop_tag,            \* local of the BB1 schedulers
    ii,                  \* local ii of fix_interloop_dependencies / of the II search
    is_pip,              \* argument is_pip of try_to_find_schedule_with_given_II
    renamer              \* RegisterRename: renamed destinations, counters, final_movs

vars == <<input_file_content, risc, has_loop, vliw, entry, pc, err, idx, schedule_start_pos, loop_tag, ii, is_pip,
          renamer>>

----------------------------------------------------------------------------
(* RISC instructions (risc_ds.py)                                          *)

\* RiscInstruction.__init__: cls is the one of is_alu / is_mul / is_mem that is set;
\* text_regs are the register numbers of the text, left to right.
RiscInstruction(text, cls, dest, tags, regs) ==
    [string_representation |-> text, cls |-> cls, dest_register |-> dest,
     reg_tags |-> tags, text_regs |-> regs]

\* What _parse_instruction_list gives for each operation form.
MOV_LC  == RiscInstruction("mov LC, 5", "alu", -1, <<>>, <<>>)
MOV_LC3 == RiscInstruction("mov LC, 3", "alu", -1, <<>>, <<>>)
MOV_X1  == RiscInstruction("mov x1, 0", "alu", 1, <<>>, <<1>>)
MOV_X1b == RiscInstruction("mov x1, 10", "alu", 1, <<>>, <<1>>)
MOV_X2  == RiscInstruction("mov x2, 0", "alu", 2, <<>>, <<2>>)
ADDI_X1 == RiscInstruction("addi x1, x1, 1", "alu", 1, <<1>>, <<1, 1>>)
ADDI_X2 == RiscInstruction("addi x2, x2, 1", "alu", 2, <<2>>, <<2, 2>>)
ADD_X2  == RiscInstruction("add x2, x1, x1", "alu", 2, <<1, 1>>, <<2, 1, 1>>)
MULU_X1 == RiscInstruction("mulu x1, x1, x1", "mul", 1, <<1, 1>>, <<1, 1, 1>>)
MULU_X2 == RiscInstruction("mulu x2, x1, x1", "mul", 2, <<1, 1>>, <<2, 1, 1>>)
ST_X2   == RiscInstruction("st x1, 0(x2)", "mem", None, <<2>>, <<1, 2>>)
LD_X1   == RiscInstruction("ld x1, 0(x2)", "mem", 2, <<>>, <<1, 2>>)
MULU_X3 == RiscInstruction("mulu x3, x2, x2", "mul", 3, <<2, 2>>, <<3, 2, 2>>)

\* The loop instruction of an input list: text_regs holds its target.
LOOP(loop_begin) == RiscInstruction("loop", "branch", None, <<>>, <<loop_begin>>)

\* The instructions the input programs are built from.
Instructions == {MOV_LC, MOV_X1, ADDI_X1, MULU_X1, MULU_X2, ST_X2}

\* RegisterDependency.__init__
RegisterDependency(reg_tag) ==
    [reg_tag |-> reg_tag, producers_idx |-> <<>>, is_local |-> FALSE,
     is_interloop |-> FALSE, is_loop_invariant |-> FALSE, is_post_loop |-> FALSE]

\* RiscInstruction.latency
latency(instruction) == IF instruction.cls = "mul" THEN 3 ELSE 1

\* The RiscProgram load_from_list makes of BB0 + BB1 + BB2 and of the two cut
\* points, before perform_dependency_analysis.
RiscProgram(instructions, bb1, bb2) ==
    [program |-> instructions, BB1_start |-> bb1, BB2_start |-> bb2,
     register_dependencies |->
        [k \in 1..Len(instructions) |->
            [j \in 1..Len(instructions[k].reg_tags) |->
                RegisterDependency(instructions[k].reg_tags[j])]]]

\* The three scenarios of the specification.
S1 == RiscProgram(<<MOV_X1b, ADD_X2>>, 2, 2)
S2 == RiscProgram(<<MOV_LC3, MOV_X1, ADD_X2>>, 2, 2)
S3 == RiscProgram(<<MOV_LC, MOV_X1, ADDI_X1, MULU_X2>>, 2, 4)

\* A loop that carries two registers around: two interloop dependencies with a
\* producer in BB0.
S4 == RiscProgram(<<MOV_X1, MOV_X2, ADDI_X1, ADDI_X2>>, 2, 4)

\* A load and a reader of the register loaded.
S6 == RiscProgram(<<MOV_X2, LD_X1, ADDI_X1>>, 3, 3)

\* A multiplication before the loop whose result the body waits for, and a body
\* of three multiplications: the body starts after empty bundles and the third
\* multiplication finds the slots of its first two bundles reserved.
S7 == RiscProgram(<<MULU_X1, MULU_X2, MULU_X2, MULU_X3>>, 1, 4)

\* The second operation of the body reads a register that only BB0 writes.
S8 == RiscProgram(<<MOV_X1, MOV_LC, MOV_LC, ADDI_X1>>, 2, 4)

\* The second operation after the loop reads a register that BB0 and the body
\* write.
S9 == RiscProgram(<<MOV_X1, MOV_LC, ADDI_X1, MOV_LC, ADDI_X1>>, 2, 3)

\* The multiplication of the body reads a register that the body writes before
\* it and BB0 does not write.
S10 == RiscProgram(<<MOV_LC, MOV_LC, MOV_X1, MULU_X2>>, 2, 4)

\* A body whose last bundle holds two ALU operations, and whose first operation
\* has an interloop dependency with a producer in BB0.
S11 == RiscProgram(<<MOV_X1, ADDI_X1, ADD_X2, ADD_X2, ADD_X2>>, 1, 5)

\* The first operation of the body reads what the last one writes, and the last
\* one reads what the first one writes three bundles before it.
S12 == RiscProgram(<<MULU_X1, MULU_X1, MOV_LC, ADDI_X1>>, 1, 4)

\* The first register of the rotating file (RegisterRename.__init__).
FirstRotating == 32

\* A program without a loop that writes as many times as there are registers
\* below the rotating file, and once more.
S5 == RiscProgram([k \in 1..FirstRotating |-> MOV_X1], FirstRotating, FirstRotating)

\* The list `program` with the instruction `loop loop_begin` put in at position
\* loop_end.
with_loop(program, loop_end, loop_begin) ==
    SubSeq(program, 1, loop_end) \o <<LOOP(loop_begin)>>
    \o SubSeq(program, loop_end + 1, Len(program))

\* The input lists: the scenarios, and every list of up to MaxLen instructions
\* without a loop instruction, with one loop instruction at any position and with
\* any target, and with two loop instructions next to each other.
Inputs ==
    \/ input_file_content = S1.program
    \/ input_file_content = with_loop(S2.program, 2, 2)
    \/ input_file_content = with_loop(S3.program, 4, 2)
    \/ input_file_content = with_loop(S4.program, 4, 2)
    \/ input_file_content = S5.program
    \/ input_file_content = S6.program
    \/ input_file_content = with_loop(S7.program, 4, 1)
    \/ input_file_content = with_loop(S8.program, 4, 2)
    \/ input_file_content = with_loop(S9.program, 3, 2)
    \/ input_file_content = with_loop(S10.program, 4, 2)
    \/ input_file_content = with_loop(S11.program, 5, 1)
    \/ input_file_content = with_loop(S12.program, 4, 1)
    \/ \E n \in 0..MaxLen : \E instructions \in [1..n -> Instructions] :
          \/ input_file_content = instructions
          \/ \E loop_end \in 0..n : \E loop_begin \in 0..n :
                input_file_content = with_loop(instructions, loop_end, loop_begin)
          \/ \E loop_end \in 0..n :
                input_file_content =
                    with_loop(with_loop(instructions, loop_end, 0), loop_end + 1, 0)

\* instructions[first:stop] of Python, for 0 <= first and 0 <= stop
slice(instructions, first, stop) ==
    IF first >= stop \/ first >= Len(instructions) THEN <<>>
    ELSE SubSeq(instructions, first + 1, Min({stop, Len(instructions)}))

\* The positions of the instructions with startswith("loop")
loop_positions(instructions) ==
    {pos \in 0..(Len(instructions) - 1) : instructions[pos + 1].cls = "branch"}

\* _parse_instruction_list: `case _: assert False` for a loop instruction
parses(instructions) == loop_positions(instructions) = {}

\* blocks with instructions[loop_end + 2:] for BB2.
blocks_without_first_of_BB2(instructions) ==
    LET loop_end == CHOOSE pos \in loop_positions(instructions) : TRUE
        loop_begin == instructions[loop_end + 1].text_regs[1]
    IN  [BB0 |-> slice(instructions, 0, loop_begin),
         BB1 |-> slice(instructions, loop_begin, loop_end),
         BB2 |-> slice(instructions, loop_end + 2, Len(instructions))]

\* The three blocks of a list with one loop instruction.
blocks(instructions) ==
    LET loop_end == CHOOSE pos \in loop_positions(instructions) : TRUE
        loop_begin == instructions[loop_end + 1].text_regs[1]
    IN  [BB0 |-> slice(instructions, 0, loop_begin),
         BB1 |-> slice(instructions, loop_begin, loop_end),
         BB2 |-> slice(instructions, loop_end + 1, Len(instructions))]

\* RiscProgram.load_from_list up to the call of perform_dependency_analysis
load_from_list ==
    /\ pc = "start"
    /\ IF Cardinality(loop_positions(input_file_content)) > 1
       THEN /\ pc' = "raised" /\ err' = "AssertionError in load_from_list"
            /\ UNCHANGED <<risc, has_loop>>
       ELSE IF loop_positions(input_file_content) = {}
       THEN /\ risc' = RiscProgram(input_file_content, Len(input_file_content),
                                   Len(input_file_content))
            /\ has_loop' = FALSE
            /\ pc' = "loaded"
            /\ err' = err
       ELSE LET b == blocks(input_file_content)
            IN  IF ~(parses(b.BB0) /\ parses(b.BB1) /\ parses(b.BB2))
                THEN /\ pc' = "raised" /\ err' = "AssertionError in _parse_instruction_list"
                     /\ UNCHANGED <<risc, has_loop>>
                ELSE /\ risc' = RiscProgram(b.BB0 \o b.BB1 \o b.BB2, Len(b.BB0),
                                            Len(b.BB0) + Len(b.BB1))
                     /\ has_loop' = TRUE
                     /\ pc' = "loaded"
                     /\ err' = err
    /\ UNCHANGED <<input_file_content, vliw, entry, idx, schedule_start_pos, loop_tag, ii, is_pip,
                   renamer>>

----------------------------------------------------------------------------
(* Dependency analysis (risc_ds.py)                                        *)

dest_of(prod_idx) == risc.program[prod_idx + 1].dest_register

\* RiscProgram._find_local_dependency
find_local_dependency(instr_idx, reg_tag) ==
    LET stop_BB == IF instr_idx >= risc.BB2_start THEN risc.BB2_start - 1
                   ELSE IF instr_idx >= risc.BB1_start THEN risc.BB1_start - 1
                   ELSE -1
        found == {p \in (stop_BB + 1)..(instr_idx - 1) : dest_of(p) = reg_tag}
    IN  IF found = {} THEN None ELSE Max(found)

\* RiscProgram._find_interloop_dependency
find_interloop_dependency(instr_idx, reg_tag) ==
    LET in_bb1 == {p \in (instr_idx + 1)..(risc.BB2_start - 1) : dest_of(p) = reg_tag}
        in_bb0 == {p \in 0..(risc.BB1_start - 1) : dest_of(p) = reg_tag}
    IN  IF in_bb1 = {} THEN <<>>
        ELSE IF in_bb0 = {} THEN <<Max(in_bb1)>>
        ELSE <<Max(in_bb1), Max(in_bb0)>>

\* RiscProgram._find_loop_invariant_dependency
find_loop_invariant_dependency(reg_tag) ==
    LET found == {p \in 0..(risc.BB1_start - 1) : dest_of(p) = reg_tag}
    IN  IF found = {} THEN None ELSE Max(found)

\* RiscProgram._find_post_loop_dependency
find_post_loop_dependency(reg_tag) ==
    LET found == {p \in risc.BB1_start..(risc.BB2_start - 1) : dest_of(p) = reg_tag}
    IN  IF found = {} THEN None ELSE Max(found)

\* RegisterDependency.set_dep_type, for the producers a finder returned
\* (the empty list when it returned None).
set_dep_type(dep, dep_type, producers) ==
    IF producers = <<>> THEN dep
    ELSE [dep EXCEPT !.producers_idx = @ \o producers,
                     !.is_local = (dep_type = "local"),
                     !.is_interloop = (dep_type = "interloop"),
                     !.is_loop_invariant = (dep_type = "loop_invariant"),
                     !.is_post_loop = (dep_type = "post_loop")]

Opt(p) == IF p = None THEN <<>> ELSE <<p>>

\* The body of the three loops of perform_dependency_analysis for one operand:
\* block is the block of the loop, instr_idx the index enumerate() gives, which
\* counts from the start of the block.
analyse_dep(block, instr_idx, dep) ==
    LET local == find_local_dependency(instr_idx, dep.reg_tag)
    IN  IF block = "BB0" THEN set_dep_type(dep, "local", Opt(local))
        ELSE IF local # None THEN set_dep_type(dep, "local", <<local>>)
        ELSE IF block = "BB1" THEN
            LET inter == find_interloop_dependency(instr_idx, dep.reg_tag)
            IN  IF inter # <<>> THEN set_dep_type(dep, "interloop", inter)
                ELSE set_dep_type(dep, "loop_invariant",
                                  Opt(find_loop_invariant_dependency(dep.reg_tag)))
        ELSE
            LET post == find_post_loop_dependency(dep.reg_tag)
            IN  IF post # None THEN set_dep_type(dep, "post_loop", <<post>>)
                ELSE set_dep_type(dep, "loop_invariant",
                                  Opt(find_loop_invariant_dependency(dep.reg_tag)))

block_of(k) == IF k < risc.BB1_start THEN "BB0"
               ELSE IF k < risc.BB2_start THEN "BB1" ELSE "BB2"

block_start(block) == IF block = "BB0" THEN 0
                      ELSE IF block = "BB1" THEN risc.BB1_start ELSE risc.BB2_start

analysed_dependencies ==
    [k \in 1..Len(risc.program) |->
        [j \in 1..Len(risc.register_dependencies[k]) |->
            analyse_dep(block_of(k - 1), (k - 1) - block_start(block_of(k - 1)),
                        risc.register_dependencies[k][j])]]

\* `assert prod_idx is not None` after the loop-invariant search in BB1 and BB2.
analysis_asserts ==
    \A k \in 1..Len(risc.program) :
        block_of(k - 1) # "BB0" =>
            \A j \in 1..Len(analysed_dependencies[k]) :
                analysed_dependencies[k][j].producers_idx # <<>>

\* RiscProgram.perform_dependency_analysis
perform_dependency_analysis ==
    /\ pc = "loaded"
    /\ IF analysis_asserts
       THEN /\ risc' = [risc EXCEPT !.register_dependencies = analysed_dependencies]
            /\ pc' = "analysed"
            /\ err' = err
       ELSE /\ pc' = "raised"
            /\ err' = "AssertionError in perform_dependency_analysis"
            /\ risc' = risc
    /\ UNCHANGED <<input_file_content, has_loop, vliw, entry, idx, schedule_start_pos, loop_tag, ii, is_pip, renamer>>

----------------------------------------------------------------------------
(* Bundles (vliw_ds.py)                                                    *)

\* VliwInstructionUnit.__init__: the text is kept as the predicates put in front
\* of it, the operation, and the numbers in it.
VliwInstructionUnit(dest_register, op, regs, risc_idx) ==
    [dest_register |-> dest_register, op |-> op, regs |-> regs, pred |-> <<>>,
     risc_idx |-> risc_idx]

\* VliwInstruction.__init__: a slot is <<>> (None) or <<unit>>.
VliwInstruction ==
    [alu0 |-> <<>>, alu1 |-> <<>>, mul |-> <<>>, mem |-> <<>>, branch |-> <<>>]

\* VliwProgram.__init__
VliwProgram ==
    [program |-> <<>>, risc_pos_to_vliw_pos |-> <<>>, unavailable_slots |-> {},
     no_stages |-> 0, ii |-> 0, start_loop |-> 0, end_loop |-> 0]

\* get_available_bundle_slots without the tests of the slots being free.
slots_of_class(bundle, instruction) ==
    IF instruction.cls = "alu" THEN <<"alu0", "alu1">>
    ELSE IF instruction.cls = "mul" THEN <<"mul">>
    ELSE IF instruction.cls = "mem" THEN <<"mem">>
    ELSE <<>>

\* get_available_bundle_slots with alu1 listed before alu0.
get_available_bundle_slots_alu1_first(bundle, instruction) ==
    IF instruction.cls = "alu"
    THEN (IF bundle.alu1 = <<>> THEN <<"alu1">> ELSE <<>>) \o
         (IF bundle.alu0 = <<>> THEN <<"alu0">> ELSE <<>>)
    ELSE IF instruction.cls = "mul" /\ bundle.mul = <<>> THEN <<"mul">>
    ELSE IF instruction.cls = "mem" /\ bundle.mem = <<>> THEN <<"mem">>
    ELSE <<>>

\* VliwInstruction.get_available_bundle_slots
get_available_bundle_slots(bundle, instruction) ==
    IF instruction.cls = "alu"
    THEN (IF bundle.alu0 = <<>> THEN <<"alu0">> ELSE <<>>) \o
         (IF bundle.alu1 = <<>> THEN <<"alu1">> ELSE <<>>)
    ELSE IF instruction.cls = "mul" /\ bundle.mul = <<>> THEN <<"mul">>
    ELSE IF instruction.cls = "mem" /\ bundle.mem = <<>> THEN <<"mem">>
    ELSE <<>>

\* n times [VliwInstruction()]
empty_bundles(n) == IF n <= 0 THEN <<>> ELSE [k \in 1..n |-> VliwInstruction]

\* VliwInstruction.is_empty
is_empty(bundle) == bundle = VliwInstruction

bundle_at(v, pos) == IF pos < Len(v.program) THEN v.program[pos + 1] ELSE VliwInstruction

has_dep_type(dep) ==
    dep.is_interloop \/ dep.is_local \/ dep.is_loop_invariant \/ dep.is_post_loop

\* The loop over the dependencies without the latency of the producer.
start_at_producer(v, instr_idx, start_pos) ==
    LET deps == risc.register_dependencies[instr_idx + 1]
        set  == {k \in 1..Len(deps) : has_dep_type(deps[k])}
        last(k) == deps[k].producers_idx[Len(deps[k].producers_idx)]
    IN  IF \E k \in set : last(k) \notin DOMAIN v.risc_pos_to_vliw_pos THEN None
        ELSE Max({start_pos} \cup {v.risc_pos_to_vliw_pos[last(k)] + 1 : k \in set})

\* schedule_risc_instruction, the loop over the dependencies: the start
\* position after it, or None when the position of a producer is not in
\* risc_pos_to_vliw_pos (KeyError).
start_after_deps(v, instr_idx, start_pos) ==
    LET deps == risc.register_dependencies[instr_idx + 1]
        set  == {k \in 1..Len(deps) : has_dep_type(deps[k])}
        last(k) == deps[k].producers_idx[Len(deps[k].producers_idx)]
    IN  IF \E k \in set : last(k) \notin DOMAIN v.risc_pos_to_vliw_pos THEN None
        ELSE Max({start_pos} \cup
                 {v.risc_pos_to_vliw_pos[last(k)] + latency(risc.program[last(k) + 1])
                    : k \in set})

\* possible_units without the filter on unavailable_slots.
possible_units_of_the_bundle(v, instruction, pos, loop_start, ii_opt) ==
    get_available_bundle_slots(bundle_at(v, pos), instruction)

\* schedule_risc_instruction: possible_units at bundle pos (ii_opt is None in list mode).
possible_units(v, instruction, pos, loop_start, ii_opt) ==
    LET slots == get_available_bundle_slots(bundle_at(v, pos), instruction)
    IN  IF ii_opt = None THEN slots
        ELSE SelectSeq(slots,
                       LAMBDA u : <<(pos - loop_start) % ii_opt, u>> \notin v.unavailable_slots)

\* schedule_risc_instruction, the `while True` scan: the first bundle from `from`
\* on with a possible unit.  Past the end of the program every bundle is empty and
\* the reservations repeat with period ii, so a scan that finds nothing within ii
\* bundles past the end never ends (None).
first_possible_pos(v, instruction, from, loop_start, ii_opt) ==
    LET limit == Max({from, Len(v.program)}) + (IF ii_opt = None THEN 0 ELSE ii_opt)
        found == {pos \in from..limit :
                    possible_units(v, instruction, pos, loop_start, ii_opt) # <<>>}
    IN  IF found = {} THEN None ELSE Min(found)

\* VliwProgram.schedule_risc_instruction
schedule_risc_instruction(v, instr_idx, start_pos, ii_opt) ==
    LET instruction == risc.program[instr_idx + 1]
        from == start_after_deps(v, instr_idx, start_pos)
    IN  IF from = None THEN [raised |-> "KeyError in schedule_risc_instruction", vliw |-> v]
        ELSE
        LET pos == first_possible_pos(v, instruction, from, start_pos, ii_opt)
        IN  IF pos = None THEN [raised |-> "hang", vliw |-> v]
            ELSE
            LET schedule_unit == possible_units(v, instruction, pos, start_pos, ii_opt)[1]
                program == v.program \o empty_bundles(pos + 1 - Len(v.program))
                unit == VliwInstructionUnit(instruction.dest_register,
                                            instruction.string_representation,
                                            instruction.text_regs, instr_idx)
                old_pos == v.risc_pos_to_vliw_pos
            IN  IF program[pos + 1][schedule_unit] # <<>>
                THEN [raised |-> "AssertionError in schedule_risc_instruction", vliw |-> v]
                ELSE [raised |-> "",
                      vliw |-> [v EXCEPT
                        !.program = [program EXCEPT ![pos + 1][schedule_unit] = <<unit>>],
                        !.unavailable_slots =
                            IF ii_opt = None THEN @
                            ELSE @ \cup {<<(pos - start_pos) % ii_opt, schedule_unit>>},
                        !.risc_pos_to_vliw_pos =
                            [k \in DOMAIN old_pos \cup {instr_idx} |->
                                IF k = instr_idx THEN pos ELSE old_pos[k]]]]

----------------------------------------------------------------------------
(* The client: the operations of VliwProgram in the order of its blocks    *)

\* The step of the loop of schedule_loopless_instructions (and of the first loop of
\* schedule_loop_pip_instructions) for instruction idx.
place_next(next_pc, ii_opt) ==
    LET r == schedule_risc_instruction(vliw, idx, schedule_start_pos, ii_opt)
    IN  /\ vliw' = r.vliw
        /\ IF r.raised = ""
           THEN /\ idx' = idx + 1 /\ pc' = next_pc /\ err' = err
           ELSE /\ idx' = idx
                /\ err' = IF r.raised = "hang" THEN err ELSE r.raised
                /\ pc' = IF r.raised = "hang" THEN "hang" ELSE "raised"
        /\ UNCHANGED <<input_file_content, risc, has_loop, entry, schedule_start_pos, loop_tag, ii,
                       is_pip, renamer>>

\* The client of the `loop` schedule starts with an empty VliwProgram and
\* schedule_loopless_instructions(risc, "BB0").
schedule_BB0_begin ==
    /\ pc = "analysed"
    /\ entry = "loop"
    /\ pc' = "BB0"
    /\ idx' = 0
    /\ schedule_start_pos' = 0
    /\ vliw' = VliwProgram
    /\ is_pip' = FALSE
    /\ UNCHANGED <<input_file_content, risc, has_loop, entry, err, loop_tag, ii, renamer>>

\* schedule_loopless_instructions(risc, "BB0"), one instruction
schedule_BB0 ==
    /\ pc = "BB0"
    /\ idx < risc.BB1_start
    /\ place_next("BB0", None)

\* schedule_loop_instructions_without_interloop_dep, up to the loop of
\* schedule_loopless_instructions(risc, "BB1")
schedule_loop_begin ==
    /\ pc = "BB0"
    /\ idx = risc.BB1_start
    /\ has_loop
    /\ ~is_pip
    /\ loop_tag' = Len(vliw.program)
    /\ schedule_start_pos' = Len(vliw.program)
    /\ pc' = "BB1"
    /\ UNCHANGED <<input_file_content, risc, has_loop, vliw, entry, err, idx, ii, is_pip, renamer>>

\* schedule_loopless_instructions(risc, "BB1"), one instruction
schedule_BB1 ==
    /\ pc = "BB1"
    /\ idx < risc.BB2_start
    /\ place_next("BB1", None)

\* The first non-empty bundle from tag on, None when there is none before the end
\* of the program (program[loop_tag] then raises IndexError).
skip_empty_bundles(program, tag) ==
    LET found == {b \in tag..(Len(program) - 1) : ~is_empty(program[b + 1])}
    IN  IF found = {} THEN None ELSE Min(found)

\* The closing branch of a loop body.
loop_branch(op, tag) == VliwInstructionUnit(None, op, <<tag>>, None)

\* schedule_loop_instructions_without_interloop_dep, after the placement
schedule_loop_instructions_without_interloop_dep ==
    /\ pc = "BB1"
    /\ idx = risc.BB2_start
    /\ LET tag == skip_empty_bundles(vliw.program, loop_tag)
           last == Len(vliw.program)
       IN  IF tag = None
           THEN /\ pc' = "raised" /\ err' = "IndexError in schedule_loop_instructions_without_interloop_dep"
                /\ UNCHANGED <<vliw, loop_tag>>
           ELSE /\ loop_tag' = tag
                /\ vliw' = [vliw EXCEPT
                              !.start_loop = tag,
                              !.program[last].branch = <<loop_branch("loop", tag)>>,
                              !.end_loop = last]
                /\ pc' = "fix"
                /\ err' = err
    /\ UNCHANGED <<input_file_content, risc, has_loop, entry, idx, schedule_start_pos, ii, is_pip, renamer>>

\* _compute_min_ii_for_interloop_dep with every producer taken to have latency 1.
compute_min_ii_unit_latency(v, instr_idx) ==
    LET deps == risc.register_dependencies[instr_idx + 1]
        set  == {k \in 1..Len(deps) : deps[k].is_interloop}
        need(k) == v.risc_pos_to_vliw_pos[deps[k].producers_idx[1]] + 1
                   - v.risc_pos_to_vliw_pos[instr_idx]
    IN  IF \E k \in set : /\ Len(deps[k].producers_idx) = 2
                          /\ ~(deps[k].producers_idx[1] > deps[k].producers_idx[2])
        THEN None
        ELSE Max({1} \cup {need(k) : k \in set})

\* _compute_min_ii_for_interloop_dep with dep_idx the last listed producer in
\* place of the first.
compute_min_ii_from_last_producer(v, instr_idx) ==
    LET deps == risc.register_dependencies[instr_idx + 1]
        set  == {k \in 1..Len(deps) : deps[k].is_interloop}
        need(k) == LET dep_idx == deps[k].producers_idx[Len(deps[k].producers_idx)]
                   IN  v.risc_pos_to_vliw_pos[dep_idx] + latency(risc.program[dep_idx + 1])
                       - v.risc_pos_to_vliw_pos[instr_idx]
    IN  IF \E k \in set : /\ Len(deps[k].producers_idx) = 2
                          /\ ~(deps[k].producers_idx[1] > deps[k].producers_idx[2])
        THEN None
        ELSE Max({1} \cup {need(k) : k \in set})

\* VliwProgram._compute_min_ii_for_interloop_dep: the ii, or None when the sanity
\* check on two producers fails (AssertionError).
compute_min_ii_for_interloop_dep(v, instr_idx) ==
    LET deps == risc.register_dependencies[instr_idx + 1]
        set  == {k \in 1..Len(deps) : deps[k].is_interloop}
        need(k) == LET dep_idx == deps[k].producers_idx[1]
                   IN  v.risc_pos_to_vliw_pos[dep_idx] + latency(risc.program[dep_idx + 1])
                       - v.risc_pos_to_vliw_pos[instr_idx]
    IN  IF \E k \in set : /\ Len(deps[k].producers_idx) = 2
                          /\ ~(deps[k].producers_idx[1] > deps[k].producers_idx[2])
        THEN None
        ELSE Max({1} \cup {need(k) : k \in set})

BB1_indices == risc.BB1_start..(risc.BB2_start - 1)

\* fix_interloop_dependencies, the computation of ii
fix_interloop_dependencies ==
    /\ pc = "fix"
    /\ IF \E i \in BB1_indices : compute_min_ii_for_interloop_dep(vliw, i) = None
       THEN /\ pc' = "raised" /\ err' = "AssertionError in _compute_min_ii_for_interloop_dep" /\ ii' = ii
       ELSE /\ ii' = Max({vliw.end_loop - vliw.start_loop} \cup
                         {compute_min_ii_for_interloop_dep(vliw, i) : i \in BB1_indices})
            /\ pc' = "widen"
            /\ err' = err
    /\ UNCHANGED <<input_file_content, risc, has_loop, vliw, entry, idx, schedule_start_pos, loop_tag, is_pip, renamer>>

\* The insertion of an empty bundle at end_loop that copies the branch into it
\* and leaves it in the bundle before.
copy_branch_down(v) ==
    LET e == v.end_loop
        program == SubSeq(v.program, 1, e) \o <<VliwInstruction>> \o
                   SubSeq(v.program, e + 1, Len(v.program))
    IN  [v EXCEPT !.program = [program EXCEPT ![e + 1].branch = program[e].branch],
                  !.end_loop = e + 1]

\* Inserts an empty bundle at end_loop and moves the branch of the bundle before it
\* into it (fix_interloop_dependencies, and the same lines of rename_loop).
push_branch_down(v) ==
    LET e == v.end_loop
        program == SubSeq(v.program, 1, e) \o <<VliwInstruction>> \o
                   SubSeq(v.program, e + 1, Len(v.program))
    IN  [v EXCEPT !.program = [program EXCEPT ![e + 1].branch = program[e].branch,
                                              ![e].branch = <<>>],
                  !.end_loop = e + 1]

\* fix_interloop_dependencies, one round of the widening loop
fix_interloop_dependencies_widen ==
    /\ pc = "widen"
    /\ vliw.end_loop < vliw.start_loop + ii
    /\ vliw' = push_branch_down(vliw)
    /\ UNCHANGED <<input_file_content, risc, has_loop, entry, pc, err, idx, schedule_start_pos, loop_tag, ii, is_pip,
                   renamer>>

\* schedule_loopless_instructions(risc, "BB2"), up to its loop: after the widening
\* of the `loop` schedule, after an accepted II, or right after BB0 when the
\* program has no loop.
schedule_BB2_begin ==
    /\ \/ pc = "widen" /\ ~(vliw.end_loop < vliw.start_loop + ii)
       \/ pc = "accepted"
       \/ pc = "BB0" /\ idx = risc.BB1_start /\ ~has_loop
    /\ pc' = "BB2"
    /\ schedule_start_pos' = Len(vliw.program)
    /\ UNCHANGED <<input_file_content, risc, has_loop, vliw, entry, err, idx, loop_tag, ii, is_pip, renamer>>

\* schedule_loopless_instructions(risc, "BB2"), one instruction
schedule_BB2 ==
    /\ pc = "BB2"
    /\ idx < Len(risc.program)
    /\ place_next("BB2", None)

----------------------------------------------------------------------------
(* The II search (scheduler.py) and the modulo schedule (vliw_ds.py)       *)

\* The sanity check of try_to_find_schedule_with_given_II.
ii_is_set(pip, ii_arg) == pip \/ ii_arg # -1

\* generate_loop_schedule: try_to_find_schedule_with_given_II(risc, False), whose
\* ii is the default -1.  Reached as an entry and from generate_loop_pip_schedule.
generate_loop_schedule ==
    /\ \/ pc = "analysed" /\ entry = "generate_loop_schedule"
       \/ pc = "generate_loop_schedule"
    /\ is_pip' = FALSE
    /\ ii' = -1
    /\ IF ii_is_set(FALSE, -1)
       THEN /\ pc' = "BB0" /\ err' = err
            /\ vliw' = VliwProgram /\ idx' = 0 /\ schedule_start_pos' = 0
       ELSE /\ pc' = "raised" /\ err' = "AssertionError in try_to_find_schedule_with_given_II"
            /\ UNCHANGED <<vliw, idx, schedule_start_pos>>
    /\ UNCHANGED <<input_file_content, risc, has_loop, entry, loop_tag, renamer>>

\* The number of BB1 instructions of a class.
nr_instr(cls) == Cardinality({i \in BB1_indices : risc.program[i + 1].cls = cls})

\* The lower bound with nr_alu_instr // 2 in place of (nr_alu_instr + 1) // 2.
ii_lower_bound_rounded_down ==
    Max({1, nr_instr("alu") \div 2, nr_instr("mul"), nr_instr("mem")})

\* generate_loop_pip_schedule: the lower bound on the ii.
ii_lower_bound == Max({(nr_instr("alu") + 1) \div 2, nr_instr("mul"), nr_instr("mem")})

\* generate_loop_pip_schedule, up to the search loop
generate_loop_pip_schedule ==
    /\ pc = "analysed"
    /\ entry \in {"generate_loop_pip_schedule", "loop.pip"}
    /\ IF BB1_indices = {}
       THEN /\ pc' = "generate_loop_schedule" /\ ii' = ii
       ELSE /\ pc' = "search" /\ ii' = ii_lower_bound
    /\ UNCHANGED <<input_file_content, risc, has_loop, vliw, entry, err, idx, schedule_start_pos, loop_tag, is_pip,
                   renamer>>

\* The largest ii the search tries.
IICap == 1000

\* generate_loop_pip_schedule, one round of the search loop up to the scheduling
\* of BB0 in try_to_find_schedule_with_given_II(risc, True, ii)
try_to_find_schedule_with_given_II ==
    /\ pc = "search"
    /\ IF ii > IICap
       THEN /\ pc' = "raised" /\ err' = "TypeError in generate_loop_pip_schedule"
            /\ UNCHANGED <<vliw, idx, schedule_start_pos, is_pip>>
       ELSE /\ is_pip' = TRUE
            /\ IF ii_is_set(TRUE, ii)
               THEN /\ pc' = "BB0" /\ err' = err
                    /\ vliw' = VliwProgram /\ idx' = 0 /\ schedule_start_pos' = 0
               ELSE /\ pc' = "raised" /\ err' = "AssertionError in try_to_find_schedule_with_given_II"
                    /\ UNCHANGED <<vliw, idx, schedule_start_pos>>
    /\ UNCHANGED <<input_file_content, risc, has_loop, entry, loop_tag, ii, renamer>>

\* schedule_loop_pip_instructions, up to its first loop
schedule_loop_pip_begin ==
    /\ pc = "BB0"
    /\ idx = risc.BB1_start
    /\ is_pip
    /\ loop_tag' = Len(vliw.program)
    /\ schedule_start_pos' = Len(vliw.program)
    /\ pc' = "BB1pip"
    /\ UNCHANGED <<input_file_content, risc, has_loop, vliw, entry, err, idx, ii, is_pip, renamer>>

\* schedule_loop_pip_instructions, the first loop, one instruction
schedule_loop_pip_place ==
    /\ pc = "BB1pip"
    /\ idx < risc.BB2_start
    /\ place_next("BB1pip", ii)

\* The restoring of the bundles only: the reservations and the positions stay.
undo_scheduling_of_the_bundles(v, start_pos) ==
    [v EXCEPT !.program = SubSeq(v.program, 1, start_pos)]

\* schedule_loop_pip_instructions, the restoring of the state on a too small ii
undo_scheduling(v, start_pos) ==
    LET kept == {k \in DOMAIN v.risc_pos_to_vliw_pos : v.risc_pos_to_vliw_pos[k] < start_pos}
    IN  [v EXCEPT !.unavailable_slots = {},
                  !.program = SubSeq(v.program, 1, start_pos),
                  !.risc_pos_to_vliw_pos = [k \in kept |-> v.risc_pos_to_vliw_pos[k]]]

\* The body left as long as the placement made it.
no_padding(program, tag, ii_arg) == program

\* schedule_loop_pip_instructions, the padding of the body to a multiple of ii
pad_to_multiple(program, tag, ii_arg) ==
    program \o empty_bundles((ii_arg - ((Len(program) - tag) % ii_arg)) % ii_arg)

\* schedule_loop_pip_instructions, after an ii that is large enough
close_loop_pip(v, tag, ii_arg) ==
    LET program == pad_to_multiple(v.program, tag, ii_arg)
        last == Len(program)
    IN  [v EXCEPT !.program = [program EXCEPT
                                 ![last].branch = <<loop_branch("loop.pip", tag)>>],
                  !.no_stages = (last - tag) \div ii_arg,
                  !.ii = ii_arg,
                  !.start_loop = tag,
                  !.end_loop = last]

\* The second loop of schedule_loop_pip_instructions without the test of the ii.
stops_on_assert_only(v, i, ii_arg) ==
    compute_min_ii_for_interloop_dep(v, i) = None

\* The BB1 instructions the second loop of schedule_loop_pip_instructions stops
\* at: the sanity check of the ii computation fails, or the ii is too small.
stops_check(v, i, ii_arg) ==
    \/ compute_min_ii_for_interloop_dep(v, i) = None
    \/ compute_min_ii_for_interloop_dep(v, i) > ii_arg

\* schedule_loop_pip_instructions, from the second loop on
schedule_loop_pip_instructions ==
    /\ pc = "BB1pip"
    /\ idx = risc.BB2_start
    /\ LET stops == {i \in BB1_indices : stops_check(vliw, i, ii)}
           tag == skip_empty_bundles(vliw.program, loop_tag)
       IN  IF stops # {}
           THEN IF compute_min_ii_for_interloop_dep(vliw, Min(stops)) = None
                THEN /\ pc' = "raised" /\ err' = "AssertionError in _compute_min_ii_for_interloop_dep"
                     /\ UNCHANGED <<vliw, loop_tag>>
                ELSE /\ vliw' = undo_scheduling(vliw, schedule_start_pos)
                     /\ pc' = "rejected"
                     /\ UNCHANGED <<err, loop_tag>>
           ELSE IF tag = None
                THEN /\ pc' = "raised" /\ err' = "IndexError in schedule_loop_pip_instructions"
                     /\ UNCHANGED <<vliw, loop_tag>>
                ELSE /\ loop_tag' = tag
                     /\ vliw' = close_loop_pip(vliw, tag, ii)
                     /\ pc' = "accepted"
                     /\ err' = err
    /\ UNCHANGED <<input_file_content, risc, has_loop, entry, idx, schedule_start_pos, ii, is_pip, renamer>>

\* generate_loop_pip_schedule: the attempt returned None, the next ii
generate_loop_pip_schedule_retry ==
    /\ pc = "rejected"
    /\ ii' = ii + 1
    /\ pc' = "search"
    /\ UNCHANGED <<input_file_content, risc, has_loop, vliw, entry, err, idx, schedule_start_pos, loop_tag, is_pip,
                   renamer>>

----------------------------------------------------------------------------
(* Register renaming of the `loop` schedule (register_renaming.py)         *)

\* RegisterRename.__init__; renamed_dest_register holds the instructions whose
\* field is set, final_movs the moves rename_loop has still to place.
RegisterRename ==
    [renamed_dest_register |-> <<>>, next_free_non_rotating_register |-> 1,
     next_free_rotating_register |-> FirstRotating, final_movs |-> <<>>]

\* The occupied slots <<bundle, slot>> of bundles b..stop-1 in the order the loops
\* over the bundles and over [alu0, alu1, mul, mem(, branch)] visit them.
RECURSIVE units_in_order(_, _, _, _)
units_in_order(program, b, stop, slots) ==
    IF b >= stop THEN <<>>
    ELSE SelectSeq([k \in 1..Len(slots) |-> <<b, slots[k]>>],
                   LAMBDA u : program[b + 1][u[2]] # <<>>)
         \o units_in_order(program, b + 1, stop, slots)

unit_at(program, u) == program[u[1] + 1][u[2]][1]

\* The units rename_dest_registers renames: those with a destination register.
units_with_dest(v, vliw_start, vliw_stop) ==
    SelectSeq(units_in_order(v.program, vliw_start, vliw_stop,
                             <<"alu0", "alu1", "mul", "mem", "branch">>),
              LAMBDA u : unit_at(v.program, u).dest_register \notin {None, -1})

\* rename_dest_registers: `assert ...renamed_dest_register is None` holds for
\* every unit it renames.
dests_not_renamed(r, v, vliw_start, vliw_stop) ==
    LET dests == units_with_dest(v, vliw_start, vliw_stop)
    IN  \A k \in 1..Len(dests) :
            unit_at(v.program, dests[k]).risc_idx \notin DOMAIN r.renamed_dest_register

\* rename_dest_registers with the registers given in the order of the RISC
\* program in place of the order of the bundles.
rename_dest_registers_in_program_order(r, v, vliw_start, vliw_stop) ==
    LET dests == units_with_dest(v, vliw_start, vliw_stop)
        old == r.renamed_dest_register
        new == {unit_at(v.program, dests[k]).risc_idx : k \in 1..Len(dests)}
    IN  [r EXCEPT
            !.renamed_dest_register =
                [i \in DOMAIN old \cup new |->
                    IF i \in DOMAIN old THEN old[i]
                    ELSE r.next_free_non_rotating_register - 1
                         + Cardinality({j \in new : j <= i})],
            !.next_free_non_rotating_register = @ + Len(dests)]

\* RegisterRename.rename_dest_registers with is_roatating = False
rename_dest_registers(r, v, vliw_start, vliw_stop) ==
    LET dests == units_with_dest(v, vliw_start, vliw_stop)
        risc_idx(k) == unit_at(v.program, dests[k]).risc_idx
        old == r.renamed_dest_register
        new == {risc_idx(k) : k \in 1..Len(dests)}
    IN  [r EXCEPT
            !.renamed_dest_register =
                [i \in DOMAIN old \cup new |->
                    IF i \in DOMAIN old THEN old[i]
                    ELSE r.next_free_non_rotating_register - 1
                         + Min({k \in 1..Len(dests) : risc_idx(k) = i})],
            !.next_free_non_rotating_register = @ + Len(dests)]

\* RiscInstruction.renamed_dest_register
renamed_dest_register(r, i) ==
    IF i \in DOMAIN r.renamed_dest_register THEN r.renamed_dest_register[i] ELSE None

\* new_register taken from the first listed producer.
loop_operand_register_of_first_producer(r, prods) ==
    renamed_dest_register(r, prods[1])

\* rename_loop, new_register of a dependency with the producers prods:
\* `self.risc.program[dep.producers_idx[-1]].renamed_dest_register`
loop_operand_register(r, prods) ==
    renamed_dest_register(r, prods[Len(prods)])

\* An earliest slot that counts one cycle for every producer.
earliest_slot_of_unit_latency(v, prods) ==
    Max({v.risc_pos_to_vliw_pos[prods[1]] + 1, v.end_loop - 1})

\* earliest_slot without the bundle and the latency of the producer: the last
\* bundle of the body.
earliest_slot_of_last_bundle(v, prods) == v.end_loop - 1

\* rename_loop, earliest_slot of a dependency with the two producers prods:
\* the bundle and the latency are those of `dep.producers_idx[0]`.
earliest_slot(v, prods) ==
    Max({v.risc_pos_to_vliw_pos[prods[1]] + latency(risc.program[prods[1] + 1]),
         v.end_loop - 1})

\* rename_loop, the loop over the dependencies of one instruction from dependency
\* j on: acc holds rename_dict, the counter and final_movs.
RECURSIVE rename_dependencies(_, _, _, _, _)
rename_dependencies(r, v, deps, j, acc) ==
    IF j > Len(deps) THEN acc
    ELSE
    LET dep == deps[j]
        prods == dep.producers_idx
        set(dict, reg) == [t \in DOMAIN dict \cup {dep.reg_tag} |->
                             IF t = dep.reg_tag THEN reg ELSE dict[t]]
    IN  IF prods = <<>>
        THEN rename_dependencies(r, v, deps, j + 1,
                [acc EXCEPT !.rename_dict = set(@, acc.next_free),
                            !.next_free = @ + 1])
        ELSE
        LET new_register == loop_operand_register(r, prods)
            mov == <<earliest_slot(v, prods), new_register,
                     renamed_dest_register(r, prods[1])>>
        IN  rename_dependencies(r, v, deps, j + 1,
                [acc EXCEPT !.rename_dict = set(@, new_register),
                            !.final_movs = IF Len(prods) = 2 THEN @ \cup {mov} ELSE @])

\* string_representation_after_register_rename: the assertions on the destination
\* and on the registers of the text.
rename_asserts(unit, new_dest_register, rename_dict) ==
    /\ IF unit.dest_register = -1 THEN new_dest_register = None
       ELSE (new_dest_register = None) <=> (unit.dest_register = None)
    /\ \A k \in 1..Len(unit.regs) :
          IF k = 1 /\ unit.dest_register # None
          THEN unit.regs[k] = unit.dest_register
          ELSE unit.regs[k] \in DOMAIN rename_dict

\* string_representation_after_register_rename: the registers of the new text.
renamed_regs(unit, new_dest_register, rename_dict) ==
    [k \in 1..Len(unit.regs) |->
        IF k = 1 /\ unit.dest_register # None THEN new_dest_register
        ELSE rename_dict[unit.regs[k]]]

\* rename_loop, the loop that renames the operands, from unit k of units on: acc
\* holds the program, the counter, final_movs and whether an assertion failed.
RECURSIVE rename_operands(_, _, _, _, _)
rename_operands(r, v, units, k, acc) ==
    IF k > Len(units) \/ acc.raised THEN acc
    ELSE
    LET u == units[k]
        unit == unit_at(acc.program, u)
        d == rename_dependencies(r, v, risc.register_dependencies[unit.risc_idx + 1], 1,
                [rename_dict |-> <<>>, next_free |-> acc.next_free,
                 final_movs |-> acc.final_movs])
        new_dest == renamed_dest_register(r, unit.risc_idx)
    IN  IF ~rename_asserts(unit, new_dest, d.rename_dict)
        THEN [acc EXCEPT !.raised = TRUE]
        ELSE rename_operands(r, v, units, k + 1,
                [acc EXCEPT
                    !.program[u[1] + 1][u[2]][1].regs =
                        renamed_regs(unit, new_dest, d.rename_dict),
                    !.next_free = d.next_free,
                    !.final_movs = d.final_movs])

\* list(final_movs) without the sort: any order of the iteration over the set.
unsorted_movs(movs) ==
    {q \in [1..Cardinality(movs) -> movs] :
        \A a, b \in 1..Cardinality(movs) : a < b => q[a] # q[b]}

\* list(final_movs) after sort(key=lambda x : x[1]): the order of a set of tuples
\* with the same key is the order of the iteration over the set.
sorted_movs(movs) ==
    {q \in [1..Cardinality(movs) -> movs] :
        /\ \A a, b \in 1..Cardinality(movs) : a < b => q[a] # q[b] /\ q[a][2] <= q[b][2]}

\* rename_loop, up to the loop over final_movs
rename_loop ==
    /\ pc = "BB2"
    /\ idx = Len(risc.program)
    /\ ~is_pip
    /\ LET r == rename_dest_registers(RegisterRename, vliw, 0, Len(vliw.program))
       IN  IF ~dests_not_renamed(RegisterRename, vliw, 0, Len(vliw.program))
           THEN /\ pc' = "raised" /\ err' = "AssertionError in rename_dest_registers"
                /\ UNCHANGED <<vliw, renamer>>
           ELSE
           LET units == units_in_order(vliw.program, 0, Len(vliw.program),
                                       <<"alu0", "alu1", "mul", "mem">>)
               o == rename_operands(r, vliw, units, 1,
                        [program |-> vliw.program, raised |-> FALSE,
                         next_free |-> r.next_free_non_rotating_register,
                         final_movs |-> {}])
           IN  IF o.raised
               THEN /\ pc' = "raised" /\ err' = "AssertionError in string_representation_after_register_rename"
                    /\ UNCHANGED <<vliw, renamer>>
               ELSE /\ vliw' = [vliw EXCEPT !.program = o.program]
                    /\ \E q \in sorted_movs(o.final_movs) :
                          renamer' = [r EXCEPT !.next_free_non_rotating_register = o.next_free,
                                               !.final_movs = q]
                    /\ pc' = "movs"
                    /\ err' = err
    /\ UNCHANGED <<input_file_content, risc, has_loop, entry, idx, schedule_start_pos, loop_tag, ii, is_pip>>

\* The mov of rename_loop.
fixup_mov(renamed_BB0_reg, renamed_BB1_reg) ==
    VliwInstructionUnit(-1, "mov", <<renamed_BB0_reg, renamed_BB1_reg>>, -1)

\* rename_loop, the loop over final_movs: `while line >= end_loop`, one round, for
\* the first of the moves still to place
rename_loop_insert_bundle ==
    /\ pc = "movs"
    /\ renamer.final_movs # <<>>
    /\ Head(renamer.final_movs)[1] >= vliw.end_loop
    /\ vliw' = push_branch_down(vliw)
    /\ UNCHANGED <<input_file_content, risc, has_loop, entry, pc, err, idx, schedule_start_pos, loop_tag, ii, is_pip,
                   renamer>>

\* rename_loop, the loop over final_movs: the placing of the first of the moves
\* still to place into a free ALU of bundle `line`; with both taken `while True`
\* never ends
rename_loop_place_mov ==
    /\ pc = "movs"
    /\ renamer.final_movs # <<>>
    /\ LET mov == Head(renamer.final_movs)
           line == mov[1]
           bundle == vliw.program[line + 1]
           unit == fixup_mov(mov[2], mov[3])
       IN  /\ line < vliw.end_loop
           /\ IF bundle.alu0 = <<>>
              THEN /\ vliw' = [vliw EXCEPT !.program[line + 1].alu0 = <<unit>>]
                   /\ renamer' = [renamer EXCEPT !.final_movs = Tail(@)]
                   /\ pc' = pc
              ELSE IF bundle.alu1 = <<>>
              THEN /\ vliw' = [vliw EXCEPT !.program[line + 1].alu1 = <<unit>>]
                   /\ renamer' = [renamer EXCEPT !.final_movs = Tail(@)]
                   /\ pc' = pc
              ELSE /\ pc' = "hang"
                   /\ UNCHANGED <<vliw, renamer>>
    /\ UNCHANGED <<input_file_content, risc, has_loop, entry, err, idx, schedule_start_pos, loop_tag, ii, is_pip>>

\* rename_loop returns
rename_loop_return ==
    /\ pc = "movs"
    /\ renamer.final_movs = <<>>
    /\ pc' = "done"
    /\ UNCHANGED <<input_file_content, risc, has_loop, vliw, entry, err, idx, schedule_start_pos, loop_tag, ii,
                   is_pip, renamer>>

----------------------------------------------------------------------------
(* Compression of the pipelined body (vliw_ds.py)                          *)

\* get_stage with the position inside the stage in place of the stage.
position_in_stage(v, vliw_instr_idx) ==
    LET result == (vliw_instr_idx - v.start_loop) % v.ii
    IN  IF v.start_loop <= vliw_instr_idx /\ result < v.no_stages THEN result ELSE None

\* VliwProgram.get_stage, None when an assertion of it fails
get_stage(v, vliw_instr_idx) ==
    LET result == (vliw_instr_idx - v.start_loop) \div v.ii
    IN  IF v.start_loop <= vliw_instr_idx /\ result < v.no_stages THEN result ELSE None

\* The two prologue moves in a new bundle at start_loop, whatever is free in the
\* bundle before the body.
place_prologue_in_a_new_bundle(v) ==
    LET mov_p32 == VliwInstructionUnit(None, "mov p32, true", <<>>, -1)
        mov_EC == VliwInstructionUnit(None, "mov EC", <<v.no_stages - 1>>, None)
        prologue_bundle == [VliwInstruction EXCEPT !.alu0 = <<mov_EC>>, !.alu1 = <<mov_p32>>]
        inserted == SubSeq(v.program, 1, v.start_loop) \o <<prologue_bundle>> \o
                    SubSeq(v.program, v.start_loop + 1, Len(v.program))
    IN  [v EXCEPT
            !.program = [inserted EXCEPT
                           ![v.end_loop + 1].branch[1].regs = <<v.start_loop + 1>>],
            !.start_loop = @ + 1,
            !.end_loop = @ + 1]

\* compress_loop_body, the two prologue moves: into the free ALUs of the bundle
\* before the body, the rest into a new bundle at start_loop.
place_prologue(v) ==
    LET mov_p32 == VliwInstructionUnit(None, "mov p32, true", <<>>, -1)
        mov_EC == VliwInstructionUnit(None, "mov EC", <<v.no_stages - 1>>, None)
        bundle == bundle_at(v, v.start_loop - 1)
        free0 == v.start_loop > 0 /\ bundle.alu0 = <<>>
        free1 == v.start_loop > 0 /\ bundle.alu1 = <<>>
        nr_matched == (IF free0 THEN 1 ELSE 0) + (IF free1 THEN 1 ELSE 0)
        before == IF v.start_loop = 0 THEN v.program
                  ELSE [v.program EXCEPT
                          ![v.start_loop].alu0 = IF free0 THEN <<mov_EC>> ELSE @,
                          ![v.start_loop].alu1 = IF ~free1 THEN @
                                                 ELSE IF free0 THEN <<mov_p32>>
                                                 ELSE <<mov_EC>>]
        prologue_bundle ==
            IF nr_matched = 1 THEN [VliwInstruction EXCEPT !.alu0 = <<mov_p32>>]
            ELSE [VliwInstruction EXCEPT !.alu0 = <<mov_EC>>, !.alu1 = <<mov_p32>>]
        inserted == SubSeq(before, 1, v.start_loop) \o <<prologue_bundle>> \o
                    SubSeq(before, v.start_loop + 1, Len(before))
    IN  IF nr_matched = 2 THEN [v EXCEPT !.program = before]
        ELSE [v EXCEPT
                !.program = [inserted EXCEPT
                               ![v.end_loop + 1].branch[1].regs = <<v.start_loop + 1>>],
                !.start_loop = @ + 1,
                !.end_loop = @ + 1]

\* compress_loop_body, the predicate put in front of the text of a unit
with_predicate(unit, stage) == [unit EXCEPT !.pred = <<32 + stage>> \o @]

\* compress_loop_body: the body bundles whose slot goes to slot `slot` of bundle
\* bundle_pos of the compressed loop.
folded(v, bundle_pos, slot) ==
    {b \in v.start_loop..(v.end_loop - 1) :
        (b - v.start_loop) % v.ii = bundle_pos /\ v.program[b + 1][slot] # <<>>}

\* compress_loop_body: the compressed loop, with the predicates.
compressed_loop(v) ==
    [bundle_pos \in 1..v.ii |->
        [slot \in DOMAIN VliwInstruction |->
            LET from == folded(v, bundle_pos - 1, slot)
            IN  IF from = {} THEN <<>>
                ELSE LET b == Min(from)
                         unit == v.program[b + 1][slot][1]
                     IN  IF slot = "branch" THEN <<unit>>
                         ELSE <<with_predicate(unit, get_stage(v, b))>>]]

\* compress_loop_body: no assertion of get_stage and of the copying fails.
compress_asserts(v) ==
    /\ \A b \in v.start_loop..(v.end_loop - 1) : get_stage(v, b) # None
    /\ \A bundle_pos \in 0..(v.ii - 1), slot \in DOMAIN VliwInstruction :
          Cardinality(folded(v, bundle_pos, slot)) <= 1

\* ---- Register renaming of the `loop.pip` schedule (register_renaming.py) ----

\* A renaming that reserves S names for each producer of the body instead of
\* S + 1.
rename_rotating_dest_registers_of_stages(r, v, vliw_start, vliw_stop) ==
    LET dests == units_with_dest(v, vliw_start, vliw_stop)
        risc_idx(k) == unit_at(v.program, dests[k]).risc_idx
        old == r.renamed_dest_register
        new == {risc_idx(k) : k \in 1..Len(dests)}
    IN  [r EXCEPT
            !.renamed_dest_register =
                [i \in DOMAIN old \cup new |->
                    IF i \in DOMAIN old THEN old[i]
                    ELSE r.next_free_rotating_register + v.no_stages
                         * (Min({k \in 1..Len(dests) : risc_idx(k) = i}) - 1)],
            !.next_free_rotating_register = @ + v.no_stages * Len(dests)]

\* RegisterRename.rename_dest_registers with is_roatating = True
rename_rotating_dest_registers(r, v, vliw_start, vliw_stop) ==
    LET dests == units_with_dest(v, vliw_start, vliw_stop)
        risc_idx(k) == unit_at(v.program, dests[k]).risc_idx
        old == r.renamed_dest_register
        new == {risc_idx(k) : k \in 1..Len(dests)}
    IN  [r EXCEPT
            !.renamed_dest_register =
                [i \in DOMAIN old \cup new |->
                    IF i \in DOMAIN old THEN old[i]
                    ELSE r.next_free_rotating_register + (v.no_stages + 1)
                         * (Min({k \in 1..Len(dests) : risc_idx(k) = i}) - 1)],
            !.next_free_rotating_register = @ + (v.no_stages + 1) * Len(dests)]

\* `renamed_dest_register = next_free_non_rotating_register` followed by
\* `next_free_non_rotating_register += 1`
allocate_non_rotating(r, i) ==
    [r EXCEPT
        !.renamed_dest_register =
            [k \in DOMAIN @ \cup {i} |->
                IF k = i THEN r.next_free_non_rotating_register ELSE @[k]],
        !.next_free_non_rotating_register = @ + 1]

\* The dependencies of the instructions of `units`, in the order of the loops
\* over the units and over register_dependencies.
RECURSIVE dependencies_of_units(_, _, _)
dependencies_of_units(program, units, k) ==
    IF k > Len(units) THEN <<>>
    ELSE risc.register_dependencies[unit_at(program, units[k]).risc_idx + 1]
         \o dependencies_of_units(program, units, k + 1)

\* rename_loop_pip, the loop over the bundles from start_loop on: a non-rotating
\* register for every producer of a loop invariant dependency not yet renamed.
RECURSIVE rename_loop_invariant_producers(_, _, _)
rename_loop_invariant_producers(r, deps, j) ==
    IF j > Len(deps) THEN r
    ELSE LET risc_bb0_idx == deps[j].producers_idx[1]
         IN  rename_loop_invariant_producers(
                 IF deps[j].is_loop_invariant
                    /\ renamed_dest_register(r, risc_bb0_idx) = None
                 THEN allocate_non_rotating(r, risc_bb0_idx) ELSE r,
                 deps, j + 1)

\* The two assertions of that loop.
loop_invariant_asserts(deps) ==
    \A j \in 1..Len(deps) :
        deps[j].is_loop_invariant =>
            /\ Len(deps[j].producers_idx) = 1
            /\ dest_of(deps[j].producers_idx[1]) # None

\* The dependencies of the instructions of BB1, in the order of the program.
RECURSIVE BB1_dependencies(_)
BB1_dependencies(i) ==
    IF i >= risc.BB2_start THEN <<>>
    ELSE risc.register_dependencies[i + 1] \o BB1_dependencies(i + 1)

\* rename_loop_pip, the loop over the bundles before start_loop, from unit k of
\* units on: acc holds the renamer and the exception raised. `dep` after the two
\* loops over BB1 is the last dependency they went through.
RECURSIVE rename_BB0_dest_registers(_, _, _, _)
rename_BB0_dest_registers(v, units, k, acc) ==
    IF k > Len(units) \/ acc.raised # "" THEN acc
    ELSE
    LET instruction == unit_at(v.program, units[k])
        r == acc.r
        deps == BB1_dependencies(risc.BB1_start)
        found == SelectSeq(deps, LAMBDA d :
                    \E p \in 1..Len(d.producers_idx) :
                        d.producers_idx[p] = instruction.risc_idx)
        is_interloop_dep == found # <<>>
        other_interloop_producer_risc_idx == found[Len(found)].producers_idx[1]
        dep == deps[Len(deps)]
        other == renamed_dest_register(r, other_interloop_producer_risc_idx)
        stage_other_producer ==
            get_stage(v, v.risc_pos_to_vliw_pos[dep.producers_idx[1]])
    IN  IF \/ renamed_dest_register(r, instruction.risc_idx) # None
           \/ instruction.dest_register \in {None, -1}
        THEN rename_BB0_dest_registers(v, units, k + 1, acc)
        ELSE IF ~is_interloop_dep
        THEN rename_BB0_dest_registers(v, units, k + 1,
                [acc EXCEPT !.r = allocate_non_rotating(r, instruction.risc_idx)])
        ELSE IF stage_other_producer = None
        THEN [acc EXCEPT !.raised = "AssertionError in get_stage"]
        ELSE IF other = None
        THEN [acc EXCEPT !.raised = "TypeError in rename_loop_pip"]
        ELSE rename_BB0_dest_registers(v, units, k + 1,
                [acc EXCEPT !.r.renamed_dest_register =
                    [i \in DOMAIN @ \cup {instruction.risc_idx} |->
                        IF i = instruction.risc_idx
                        THEN other + (1 - stage_other_producer) ELSE @[i]]])

\* rename_loop_pip, the loop over the bundles from end_loop on, from unit k of
\* units on.
RECURSIVE rename_BB2_dest_registers(_, _, _, _)
rename_BB2_dest_registers(v, units, k, acc) ==
    IF k > Len(units) \/ acc.raised # "" THEN acc
    ELSE
    LET instruction == unit_at(v.program, units[k])
    IN  IF renamed_dest_register(acc.r, instruction.risc_idx) # None
        THEN [acc EXCEPT !.raised = "AssertionError in rename_loop_pip"]
        ELSE IF instruction.dest_register \in {None, -1}
        THEN rename_BB2_dest_registers(v, units, k + 1, acc)
        ELSE rename_BB2_dest_registers(v, units, k + 1,
                [acc EXCEPT !.r = allocate_non_rotating(@, instruction.risc_idx)])

\* body_operand_register without the `new_register += 1` of an interloop
\* dependency.
body_operand_register_of_local(r, v, dep, consumer_idx) ==
    LET producer_idx == dep.producers_idx[1]
        producer_stage == get_stage(v, v.risc_pos_to_vliw_pos[producer_idx])
        consumer_stage == get_stage(v, v.risc_pos_to_vliw_pos[consumer_idx])
    IN  renamed_dest_register(r, producer_idx) + (consumer_stage - producer_stage)

\* rename_loop_pip, new_register of a local or interloop dependency of an
\* instruction of the body.
body_operand_register(r, v, dep, consumer_idx) ==
    LET producer_idx == dep.producers_idx[1]
        producer_stage == get_stage(v, v.risc_pos_to_vliw_pos[producer_idx])
        consumer_stage == get_stage(v, v.risc_pos_to_vliw_pos[consumer_idx])
        new_register == renamed_dest_register(r, producer_idx)
                        + (consumer_stage - producer_stage)
    IN  IF dep.is_interloop THEN new_register + 1 ELSE new_register

\* post_loop_operand_register with the stage of the producer left out.
post_loop_operand_register_of_stage_0(r, v, dep) ==
    LET producer_idx == dep.producers_idx[1]
        consumer_stage == v.no_stages
    IN  renamed_dest_register(r, producer_idx) + consumer_stage

\* rename_loop_pip, new_register of a post loop dependency.
post_loop_operand_register(r, v, dep) ==
    LET producer_idx == dep.producers_idx[1]
        producer_stage == get_stage(v, v.risc_pos_to_vliw_pos[producer_idx])
        consumer_stage == v.no_stages
    IN  renamed_dest_register(r, producer_idx) + (consumer_stage - producer_stage)

\* rename_loop_pip, the loop over the dependencies of the instruction of unit u
\* from dependency j on: acc holds rename_dict, the counter and the exception
\* raised.
RECURSIVE rename_pip_dependencies(_, _, _, _, _, _)
rename_pip_dependencies(r, v, u, deps, j, acc) ==
    IF j > Len(deps) \/ acc.raised # "" THEN acc
    ELSE
    LET dep == deps[j]
        bundle_idx == u[1]
        consumer_idx == unit_at(v.program, u).risc_idx
        producer_idx == dep.producers_idx[1]
        set(reg) == [acc EXCEPT !.rename_dict =
                        [t \in DOMAIN @ \cup {dep.reg_tag} |->
                            IF t = dep.reg_tag THEN reg ELSE @[t]]]
        no_stage(i) == get_stage(v, v.risc_pos_to_vliw_pos[i]) = None
        raise(e) == [acc EXCEPT !.raised = e]
        next(a) == rename_pip_dependencies(r, v, u, deps, j + 1, a)
    IN  IF dep.is_loop_invariant
        THEN next(set(renamed_dest_register(r, producer_idx)))
        ELSE IF dep.is_local \/ dep.is_interloop
        THEN IF v.start_loop > bundle_idx \/ v.end_loop <= bundle_idx
             THEN IF ~dep.is_local THEN raise("AssertionError in rename_loop_pip")
                  ELSE next(set(renamed_dest_register(r, producer_idx)))
             ELSE IF no_stage(producer_idx) \/ no_stage(consumer_idx)
             THEN raise("AssertionError in get_stage")
             ELSE IF renamed_dest_register(r, producer_idx) = None
             THEN raise("TypeError in rename_loop_pip")
             ELSE next(set(body_operand_register(r, v, dep, consumer_idx)))
        ELSE IF dep.is_post_loop
        THEN IF no_stage(producer_idx) THEN raise("AssertionError in get_stage")
             ELSE IF renamed_dest_register(r, producer_idx) = None
             THEN raise("TypeError in rename_loop_pip")
             ELSE next(set(post_loop_operand_register(r, v, dep)))
        ELSE IF dep.producers_idx # <<>>
        THEN raise("AssertionError in rename_loop_pip")
        ELSE next([set(acc.next_free) EXCEPT !.next_free = @ + 1])

\* rename_loop_pip, the loop that renames the operands, from unit k of units on:
\* acc holds the program, the counter and the exception raised.
RECURSIVE rename_pip_operands(_, _, _, _, _)
rename_pip_operands(r, v, units, k, acc) ==
    IF k > Len(units) \/ acc.raised # "" THEN acc
    ELSE
    LET u == units[k]
        unit == unit_at(acc.program, u)
        d == rename_pip_dependencies(r, v, u,
                risc.register_dependencies[unit.risc_idx + 1], 1,
                [rename_dict |-> <<>>, next_free |-> acc.next_free, raised |-> ""])
        new_dest == renamed_dest_register(r, unit.risc_idx)
    IN  IF d.raised # "" THEN [acc EXCEPT !.raised = d.raised]
        ELSE IF ~rename_asserts(unit, new_dest, d.rename_dict)
        THEN [acc EXCEPT !.raised =
                "AssertionError in string_representation_after_register_rename"]
        ELSE rename_pip_operands(r, v, units, k + 1,
                [acc EXCEPT
                    !.program[u[1] + 1][u[2]][1].regs =
                        renamed_regs(unit, new_dest, d.rename_dict),
                    !.next_free = d.next_free])

\* RegisterRename.rename_loop_pip: the renamer after the four loops that rename
\* the destinations, and the exception raised in them.
renamed_pip_dest_registers(v) ==
    LET slots == <<"alu0", "alu1", "mul", "mem">>
        last == Len(v.program)
        r1 == rename_rotating_dest_registers(RegisterRename, v, v.start_loop, v.end_loop)
        deps == dependencies_of_units(v.program,
                    units_in_order(v.program, v.start_loop, last, slots), 1)
        r2 == rename_loop_invariant_producers(r1, deps, 1)
        a3 == rename_BB0_dest_registers(v,
                    units_in_order(v.program, 0, v.start_loop, slots), 1,
                    [r |-> r2, raised |-> ""])
    IN  IF ~dests_not_renamed(RegisterRename, v, v.start_loop, v.end_loop)
        THEN [r |-> RegisterRename, raised |-> "AssertionError in rename_dest_registers"]
        ELSE IF ~loop_invariant_asserts(deps)
        THEN [r |-> r1, raised |-> "AssertionError in rename_loop_pip"]
        ELSE rename_BB2_dest_registers(v,
                    units_in_order(v.program, v.end_loop, last, slots), 1, a3)

\* RegisterRename.rename_loop_pip
rename_loop_pip ==
    /\ pc = "BB2"
    /\ idx = Len(risc.program)
    /\ is_pip
    /\ entry = "loop.pip"
    /\ LET a == renamed_pip_dest_registers(vliw)
           o == rename_pip_operands(a.r, vliw,
                    units_in_order(vliw.program, 0, Len(vliw.program),
                                   <<"alu0", "alu1", "mul", "mem">>), 1,
                    [program |-> vliw.program, raised |-> "",
                     next_free |-> a.r.next_free_non_rotating_register])
       IN  IF a.raised # ""
           THEN /\ pc' = "raised" /\ err' = a.raised
                /\ UNCHANGED <<vliw, renamer>>
           ELSE IF o.raised # ""
           THEN /\ pc' = "raised" /\ err' = o.raised
                /\ UNCHANGED <<vliw, renamer>>
           ELSE /\ vliw' = [vliw EXCEPT !.program = o.program]
                /\ renamer' = [a.r EXCEPT !.next_free_non_rotating_register = o.next_free]
                /\ pc' = "renamed"
                /\ err' = err
    /\ UNCHANGED <<input_file_content, risc, has_loop, entry, idx, schedule_start_pos, loop_tag, ii, is_pip>>

\* VliwProgram.compress_loop_body, called on the renamed schedule
compress_loop_body ==
    /\ pc = "renamed"
    /\ IF risc.BB1_start = risc.BB2_start
       THEN /\ pc' = "done" /\ UNCHANGED <<vliw, err>>
       ELSE LET v == place_prologue(vliw)
            IN  IF ~compress_asserts(v)
                THEN /\ pc' = "raised" /\ err' = "AssertionError in compress_loop_body" /\ vliw' = vliw
                ELSE /\ vliw' = [v EXCEPT !.program =
                                    SubSeq(v.program, 1, v.start_loop) \o compressed_loop(v)
                                    \o SubSeq(v.program, v.end_loop + 1, Len(v.program))]
                     /\ pc' = "done"
                     /\ err' = err
    /\ UNCHANGED <<input_file_content, risc, has_loop, entry, idx, schedule_start_pos, loop_tag, ii, is_pip, renamer>>

----------------------------------------------------------------------------

\* main, `json.dump(vliw_program.dump(), ...)` on what generate_loop_schedule or
\* generate_loop_pip_schedule returned: the bundles go to the output as they are.
dump ==
    /\ pc = "BB2"
    /\ idx = Len(risc.program)
    /\ entry \in {"generate_loop_schedule", "generate_loop_pip_schedule"}
    /\ pc' = "written"
    /\ UNCHANGED <<input_file_content, risc, has_loop, vliw, entry, err, idx, schedule_start_pos,
                   loop_tag, ii, is_pip, renamer>>

\* What is run on the program: the two calls of main, each followed by the dump,
\* and, for each of the two schedules, the operations of vliw_ds.py and of
\* register_renaming.py in the order of the specification.
Entries == {"loop", "loop.pip", "generate_loop_schedule", "generate_loop_pip_schedule"}

Init ==
    /\ Inputs
    /\ risc = RiscProgram(<<>>, 0, 0)
    /\ has_loop = FALSE
    /\ entry \in Entries
    /\ vliw = VliwProgram
    /\ pc = "start"
    /\ err = ""
    /\ idx = 0
    /\ schedule_start_pos = 0
    /\ loop_tag = 0
    /\ ii = 0
    /\ is_pip = FALSE
    /\ renamer = RegisterRename

Next ==
    \/ load_from_list
    \/ perform_dependency_analysis
    \/ schedule_BB0_begin
    \/ schedule_BB0
    \/ schedule_loop_begin
    \/ schedule_BB1
    \/ schedule_loop_instructions_without_interloop_dep
    \/ fix_interloop_dependencies
    \/ fix_interloop_dependencies_widen
    \/ schedule_BB2_begin
    \/ schedule_BB2
    \/ generate_loop_schedule
    \/ generate_loop_pip_schedule
    \/ try_to_find_schedule_with_given_II
    \/ schedule_loop_pip_begin
    \/ schedule_loop_pip_place
    \/ schedule_loop_pip_instructions
    \/ generate_loop_pip_schedule_retry
    \/ rename_loop
    \/ rename_loop_insert_bundle
    \/ rename_loop_place_mov
    \/ rename_loop_return
    \/ rename_loop_pip
    \/ compress_loop_body
    \/ dump

Spec == Init /\ [][Next]_vars

----------------------------------------------------------------------------
(* Properties                                                              *)

pos_of == vliw.risc_pos_to_vliw_pos
deps_of(i) == risc.register_dependencies[i + 1]
last_producer(dep) == dep.producers_idx[Len(dep.producers_idx)]
first_producer(dep) == dep.producers_idx[1]

\* The latencies as the specification states them: 3 for mulu, 1 otherwise.
stated_latency(i) ==
    IF risc.program[i + 1].string_representation \in
            {MULU_X1.string_representation, MULU_X2.string_representation}
    THEN 3 ELSE 1

\* The occupied slots <<bundle, slot>> of the whole program.
all_units ==
    {u \in (0..(Len(vliw.program) - 1)) \X DOMAIN VliwInstruction :
        vliw.program[u[1] + 1][u[2]] # <<>>}

slots_holding(i) == {u \in all_units : unit_at(vliw.program, u).risc_idx = i}

\* C1: in the loop and in the loop.pip schedule, after every placement step, every
\* placed consumer c and every dependency of c of kind local, loop-invariant or
\* post-loop with last listed producer p have p placed and
\* bundle(p) + latency(p) <= bundle(c), the latency being 3 for mulu and 1 otherwise.
C1_ProducerLatencyRespected ==
    \A c \in DOMAIN pos_of :
        \A k \in 1..Len(deps_of(c)) :
            LET dep == deps_of(c)[k]
            IN  (dep.is_local \/ dep.is_loop_invariant \/ dep.is_post_loop) =>
                    /\ last_producer(dep) \in DOMAIN pos_of
                    /\ pos_of[last_producer(dep)] + stated_latency(last_producer(dep))
                            <= pos_of[c]

\* A consumer placed exactly three bundles after the mulu that produces its operand.
C1_Witness ==
    \E c \in DOMAIN pos_of :
        \E k \in 1..Len(deps_of(c)) :
            LET dep == deps_of(c)[k]
            IN  /\ dep.is_local \/ dep.is_loop_invariant \/ dep.is_post_loop
                /\ stated_latency(last_producer(dep)) = 3
                /\ pos_of[c] = pos_of[last_producer(dep)] + 3

\* The `loop` schedule is finished: BB1 is scheduled and widened.
loop_schedule_finished == ~is_pip /\ has_loop /\ pc \in {"BB2", "movs", "done"}

\* C2: in the finished loop schedule every BB1 consumer c with an interloop
\* dependency whose first listed producer p is in BB1 has
\* bundle(p) + latency(p) <= bundle(c) + (end_loop - start_loop).
C2_InterloopDistanceWithinBody ==
    loop_schedule_finished =>
        \A c \in BB1_indices :
            \A k \in 1..Len(deps_of(c)) :
                LET dep == deps_of(c)[k]
                IN  (dep.is_interloop /\ first_producer(dep) \in BB1_indices) =>
                        pos_of[first_producer(dep)] + stated_latency(first_producer(dep))
                            <= pos_of[c] + (vliw.end_loop - vliw.start_loop)

\* A finished loop schedule whose body was widened for a mulu that feeds the next
\* iteration: the distance is met with equality and the last body bundle holds
\* the branch only.
C2_Witness ==
    /\ loop_schedule_finished
    /\ pc = "BB2"
    /\ vliw.program[vliw.end_loop] =
            [VliwInstruction EXCEPT !.branch = vliw.program[vliw.end_loop].branch]
    /\ \E c \in BB1_indices :
          \E k \in 1..Len(deps_of(c)) :
              LET dep == deps_of(c)[k]
              IN  /\ dep.is_interloop
                  /\ first_producer(dep) \in BB1_indices
                  /\ stated_latency(first_producer(dep)) = 3
                  /\ pos_of[first_producer(dep)] + 3
                        = pos_of[c] + (vliw.end_loop - vliw.start_loop)

\* An interloop dependency of BB1 with its producer in BB1 needs more than ii_arg.
ii_too_small(v, ii_arg) ==
    \E c \in BB1_indices :
        \E k \in 1..Len(deps_of(c)) :
            LET dep == deps_of(c)[k]
            IN  /\ dep.is_interloop
                /\ first_producer(dep) \in BB1_indices
                /\ v.risc_pos_to_vliw_pos[first_producer(dep)]
                        + stated_latency(first_producer(dep))
                        - v.risc_pos_to_vliw_pos[c] > ii_arg

has_pip_branch(v) ==
    \E b \in 1..Len(v.program) :
        v.program[b].branch # <<>> /\ v.program[b].branch[1].op = "loop.pip"

placing == pc \notin {"movs", "done", "hang"}

slot_class(slot) == IF slot \in {"alu0", "alu1"} THEN "alu" ELSE slot

\* C4: no slot is assigned while it holds an operation: the assertions before the
\* writes never fail, and every placed instruction is in exactly one slot, of its
\* class, of the bundle it was placed in (no write has replaced it).
C4_SlotsExclusive ==
    /\ err # "AssertionError in schedule_risc_instruction"
    /\ placing =>
          \A i \in DOMAIN pos_of :
              /\ Cardinality(slots_holding(i)) = 1
              /\ \A u \in slots_holding(i) :
                    /\ u[1] = pos_of[i]
                    /\ slot_class(u[2]) = risc.program[i + 1].cls

\* Modulo placement: both ALUs of a body bundle are taken and a third ALU
\* instruction without dependencies went to the bundle after it.
C4_Witness ==
    /\ pc = "BB1pip"
    /\ \E i \in DOMAIN pos_of :
          /\ i \in BB1_indices
          /\ deps_of(i) = <<>>
          /\ pos_of[i] = schedule_start_pos + 1
          /\ vliw.program[schedule_start_pos + 1].alu0 # <<>>
          /\ vliw.program[schedule_start_pos + 1].alu1 # <<>>
          /\ vliw.unavailable_slots # {}

branch_bundles == {b \in 0..(Len(vliw.program) - 1) : vliw.program[b + 1].branch # <<>>}

\* C5: for a program with a loop, in the `loop` schedule after the BB1 scheduling,
\* after every widening step and after every bundle the renamer inserts, exactly one
\* bundle has a BRANCH slot that is not empty; it is bundle end_loop - 1 and its
\* text is `loop t` with t = start_loop.
C5_SingleLoopBranch ==
    (~is_pip /\ has_loop /\ pc \in {"fix", "widen", "BB2", "movs", "done"}) =>
        /\ branch_bundles = {vliw.end_loop - 1}
        /\ vliw.program[vliw.end_loop].branch[1].op = "loop"
        /\ vliw.program[vliw.end_loop].branch[1].regs = <<vliw.start_loop>>

\* The renamer has inserted a bundle at the end of a body of several bundles and
\* has placed a move next to the branch.
C5_Witness ==
    /\ ~is_pip /\ has_loop /\ pc = "done"
    /\ ii > 1
    /\ vliw.end_loop - vliw.start_loop > ii
    /\ vliw.program[vliw.end_loop].alu0 # <<>>
    /\ vliw.program[vliw.end_loop].alu0[1].risc_idx = -1

\* C6: when schedule_loop_pip_instructions succeeds, end_loop - start_loop = S * II
\* with S the number of stages and S >= 1.
C6_BodyIsStagesTimesII ==
    (is_pip /\ pc \in {"accepted", "BB2"}) =>
        /\ vliw.ii = ii
        /\ vliw.ii >= 1
        /\ vliw.no_stages >= 1
        /\ vliw.end_loop - vliw.start_loop = vliw.no_stages * vliw.ii

\* An accepted body of two stages or more that was padded: its last bundle holds
\* the branch only.
C6_Witness ==
    /\ is_pip /\ pc = "accepted"
    /\ vliw.no_stages >= 2
    /\ vliw.ii >= 2
    /\ vliw.program[vliw.end_loop] =
            [VliwInstruction EXCEPT !.branch = vliw.program[vliw.end_loop].branch]

\* C7: after the compression every operation that is not the branch and that was
\* scheduled in body bundle b has the predicate (pN) in front of its text, with
\* N = 32 + ((b - start_loop) div II) and 32 <= N < 32 + S, start_loop being the
\* start of the body the operation was scheduled into; the branch and the
\* operations outside the body have no predicate.
C7_StagePredicates ==
    (is_pip /\ pc = "done") =>
        /\ \A i \in BB1_indices : slots_holding(i) # {}
        /\ \A u \in all_units :
              LET unit == unit_at(vliw.program, u)
                  N == 32 + ((pos_of[unit.risc_idx] - loop_tag) \div vliw.ii)
              IN  IF unit.risc_idx \in BB1_indices
                  THEN /\ unit.pred = <<N>>
                       /\ 32 <= N /\ N < 32 + vliw.no_stages
                       /\ u[1] \in vliw.start_loop..(vliw.start_loop + vliw.ii - 1)
                  ELSE unit.pred = <<>>

\* A compressed body with an operation of the second stage.
C7_Witness ==
    /\ is_pip /\ pc = "done"
    /\ \E u \in all_units : unit_at(vliw.program, u).pred = <<33>>

\* C8: for a program without a loop instruction generate_loop_pip_schedule returns,
\* without an error, what generate_loop_schedule returns; for
\* ["mov x1, 10", "add x2, x1, x1"] both are two bundles with the mov in ALU0 of
\* bundle 0 and the add in ALU0 of bundle 1.
C8_LooplessPipIsLoopSchedule ==
    (~has_loop /\ entry \in {"generate_loop_schedule", "generate_loop_pip_schedule"}) =>
        /\ pc # "raised"
        /\ (risc.program = S1.program /\ pc = "done") =>
              /\ Len(vliw.program) = 2
              /\ slots_holding(0) = {<<0, "alu0">>}
              /\ slots_holding(1) = {<<1, "alu0">>}

\* C9: with an empty loop body (the loop instruction targets itself) the `loop`
\* schedule is made without an error and has a body of exactly one bundle that holds
\* the closing branch only, after the BB0 bundles and before the BB2 bundles.
C9_EmptyBodyIsOneBranchBundle ==
    (entry = "loop" /\ has_loop /\ risc.BB1_start = risc.BB2_start) =>
        /\ err # "IndexError in schedule_loop_instructions_without_interloop_dep"
        /\ pc \in {"BB2", "movs", "done"} =>
              /\ vliw.end_loop = vliw.start_loop + 1
              /\ vliw.program[vliw.end_loop] =
                    [VliwInstruction EXCEPT !.branch = <<loop_branch("loop", vliw.start_loop)>>]
              /\ \A i \in DOMAIN pos_of :
                    IF i < risc.BB1_start THEN pos_of[i] < vliw.start_loop
                    ELSE pos_of[i] >= vliw.end_loop

\* C10: for ["mov LC, 5", "mov x1, 0", "addi x1, x1, 1", "mulu x2, x1, x1", "loop 2"]
\* the dependency analysis gives the mulu an interloop dependency whose producer is
\* the addi, and the II the pipelined search accepts is at least 3.
C10_MuluForcesIIOfThree ==
    (risc.program = S3.program /\ risc.BB1_start = 2 /\ risc.BB2_start = 4
        /\ pc # "loaded") =>
        /\ \A k \in 1..Len(deps_of(3)) :
              /\ deps_of(3)[k].is_interloop
              /\ first_producer(deps_of(3)[k]) = 2
        /\ (is_pip /\ pc = "accepted") => vliw.ii >= 3

\* The stage of the body bundle that holds instruction i, as the specification
\* defines it: (bundle - start_loop) div II.
stage_of(i) == (pos_of[i] - vliw.start_loop) \div vliw.ii

\* The registers the text of instruction c names for the operand reg_tag, after
\* the renaming.
operand_registers(c, reg_tag) ==
    {unit_at(vliw.program, u).regs[k] :
        u \in slots_holding(c),
        k \in {k \in 1..Len(risc.program[c + 1].text_regs) :
                 /\ risc.program[c + 1].text_regs[k] = reg_tag
                 /\ ~(k = 1 /\ risc.program[c + 1].dest_register # None)}}

renamed_pip == is_pip /\ pc = "renamed"

\* C11: after the pipelined renaming, every operand of a body consumer c with a
\* local or interloop dependency whose first listed producer p is in BB1 reads
\* renamed(p) + (stage(c) - stage(p)), plus 1 when the dependency is interloop; an
\* interloop consumer in the stage of its producer reads renamed(p) + 1.
C11_BodyOperandsFollowStages ==
    renamed_pip =>
        \A c \in BB1_indices :
            \A k \in 1..Len(deps_of(c)) :
                LET dep == deps_of(c)[k]
                    p == first_producer(dep)
                IN  ((dep.is_local \/ dep.is_interloop) /\ p \in BB1_indices) =>
                        /\ operand_registers(c, dep.reg_tag) # {}
                        /\ \A reg \in operand_registers(c, dep.reg_tag) :
                              reg = renamer.renamed_dest_register[p]
                                    + (stage_of(c) - stage_of(p))
                                    + (IF dep.is_interloop THEN 1 ELSE 0)
                        /\ (dep.is_interloop /\ stage_of(c) = stage_of(p)) =>
                              operand_registers(c, dep.reg_tag) =
                                  {renamer.renamed_dest_register[p] + 1}

\* A renamed pipelined schedule with an interloop consumer in the stage of its
\* BB1 producer.
C11_Witness ==
    /\ renamed_pip
    /\ \E c \in BB1_indices : \E k \in 1..Len(deps_of(c)) :
          /\ deps_of(c)[k].is_interloop
          /\ first_producer(deps_of(c)[k]) \in BB1_indices
          /\ stage_of(c) = stage_of(first_producer(deps_of(c)[k]))

\* C12: after the pipelined renaming, every operand of a BB2 operation with a
\* post-loop dependency on the BB1 producer p reads renamed(p) + (S - stage(p)),
\* S being the number of stages and stage(p) = (bundle(p) - start_loop) div II.
C12_PostLoopOperandsReadLastCopy ==
    renamed_pip =>
        \A c \in risc.BB2_start..(Len(risc.program) - 1) :
            \A k \in 1..Len(deps_of(c)) :
                LET dep == deps_of(c)[k]
                    p == first_producer(dep)
                IN  (dep.is_post_loop /\ p \in BB1_indices) =>
                        /\ operand_registers(c, dep.reg_tag) # {}
                        /\ \A reg \in operand_registers(c, dep.reg_tag) :
                              reg = renamer.renamed_dest_register[p]
                                    + (vliw.no_stages - stage_of(p))

\* A renamed pipelined schedule in which an operation of BB2 reads a register
\* whose BB1 producer is not in the first stage.
C12_Witness ==
    /\ renamed_pip
    /\ \E c \in risc.BB2_start..(Len(risc.program) - 1) :
          \E k \in 1..Len(deps_of(c)) :
              /\ deps_of(c)[k].is_post_loop
              /\ first_producer(deps_of(c)[k]) \in BB1_indices
              /\ stage_of(first_producer(deps_of(c)[k])) >= 1

\* C13: the one choice of the pipeline that the input does not fix by
\* construction, the order in which rename_loop takes the fix-up moves out of the
\* set final_movs, is fixed too: in every step of rename_loop the list of moves is
\* the only sorted order of its set of moves, no two moves having the same key, so
\* that two runs on the same input place the same moves in the same order.
C13_FixupOrderIsAFunctionOfTheInput ==
    [][(pc = "BB2" /\ pc' = "movs") =>
          LET q == renamer'.final_movs
              movs == {q[k] : k \in 1..Len(q)}
          IN  /\ sorted_movs(movs) = {q}
              /\ \A a, b \in 1..Len(q) : a < b => q[a][2] < q[b][2]]_vars

\* rename_loop has two fix-up moves to place.
C13_Witness ==
    /\ pc = "movs"
    /\ Len(renamer.final_movs) >= 2
    /\ renamer.final_movs[1] # renamer.final_movs[2]

\* The states in which a renaming has returned a schedule.
renamed_schedule == pc \in {"movs", "renamed", "done"}

\* C14: a schedule that the renaming has returned names no non-rotating register
\* above 31 and no rotating register outside 32..95: the destinations of a `loop`
\* schedule and the fresh non-rotating names of either schedule are at most 31, the
\* destinations of the body of a `loop.pip` schedule are in 32..95 (a renaming that
\* would go beyond fails and returns no schedule).
C14_NamesWithinTheRegisterFiles ==
    renamed_schedule =>
        /\ renamer.next_free_non_rotating_register <= FirstRotating
        /\ \A i \in DOMAIN renamer.renamed_dest_register :
              IF is_pip /\ i \in BB1_indices
              THEN renamer.renamed_dest_register[i] \in FirstRotating..95
              ELSE is_pip \/ renamer.renamed_dest_register[i] < FirstRotating

\* The exceptions that end the II search inside a placement or inside the check
\* of an attempt.
search_errors ==
    {"KeyError in schedule_risc_instruction",
     "AssertionError in schedule_risc_instruction",
     "AssertionError in _compute_min_ii_for_interloop_dep"}

\* C15: for a program with a non-empty BB1 whose dependency analysis has passed,
\* the II search of generate_loop_pip_schedule ends with an accepted II: no
\* placement scan runs for ever, no exception leaves a placement or the check of
\* an attempt, and the II tried stays between the lower bound and the cap.
C15_IISearchEndsWithAnAcceptedII ==
    (entry = "generate_loop_pip_schedule" /\ BB1_indices # {}) =>
        /\ pc # "hang"
        /\ ~(pc = "raised" /\ err \in search_errors)
        /\ pc \in {"search", "BB1pip", "rejected", "accepted"} =>
              ii >= ii_lower_bound /\ ii <= IICap

\* The positions of the loop instructions of the input.
input_loops ==
    {p \in 0..(Len(input_file_content) - 1) :
        input_file_content[p + 1].string_representation = "loop"}

\* The instructions at the positions [first, stop) of the input.
input_positions(first, stop) ==
    [k \in 1..(stop - first) |-> input_file_content[first + k]]

\* load_from_list has split the input.
split_done ==
    /\ pc # "start"
    /\ ~(pc = "raised" /\ err \in {"AssertionError in load_from_list",
                                  "AssertionError in _parse_instruction_list"})

last_writer(c, reg) ==
    {p \in 0..(c - 1) :
        /\ block_of(p) = block_of(c)
        /\ risc.program[p + 1].text_regs # <<>>
        /\ risc.program[p + 1].text_regs[1] = reg
        /\ risc.program[p + 1].cls # "branch"
        /\ risc.program[p + 1].string_representation # ST_X2.string_representation
        /\ \A q \in (p + 1)..(c - 1) :
              risc.program[q + 1].text_regs = <<>> \/ risc.program[q + 1].text_regs[1] # reg
                \/ risc.program[q + 1].string_representation = ST_X2.string_representation}

\* C17: the parser gives `ld x1, 0(x2)` the destination x1 and the one operand
\* x2, and `st x1, 0(x2)` no destination and the operands x1 and x2; a st is
\* placed at least one latency after the last writer, in its block, of the
\* register it stores and of its base register.
C17_LdStOperands ==
    /\ \A k \in 1..Len(risc.program) :
          LET instruction == risc.program[k]
          IN  /\ instruction.string_representation = "ld x1, 0(x2)" =>
                    instruction.dest_register = 1 /\ instruction.reg_tags = <<2>>
              /\ instruction.string_representation = "st x1, 0(x2)" =>
                    instruction.dest_register = None /\ instruction.reg_tags = <<1, 2>>
    /\ placing =>
          \A c \in DOMAIN pos_of :
              risc.program[c + 1].string_representation = "st x1, 0(x2)" =>
                  \A reg \in {1, 2} : \A p \in last_writer(c, reg) :
                      p \in DOMAIN pos_of
                          => pos_of[p] + stated_latency(p) <= pos_of[c]

\* The operands <<c, k>> of the instructions of BB1 and BB2.
loop_and_post_loop_operands ==
    {ck \in (risc.BB1_start..(Len(risc.program) - 1)) \X (1..2) :
        ck[2] <= Len(risc.program[ck[1] + 1].reg_tags)}

\* No instruction of the program writes the register of operand ck.
never_written(ck) ==
    \A p \in 0..(Len(risc.program) - 1) :
        dest_of(p) # risc.program[ck[1] + 1].reg_tags[ck[2]]

\* C18: when the operands of BB1 and BB2 read registers that no instruction of the
\* program writes, the dependency analysis ends without an error and leaves each
\* of them with an empty producer list and no kind.
C18_OperandsWithoutWriterAreAnalysed ==
    (/\ pc \notin {"start", "loaded"}
     /\ loop_and_post_loop_operands # {}
     /\ \A ck \in loop_and_post_loop_operands : never_written(ck)) =>
        /\ err # "AssertionError in perform_dependency_analysis"
        /\ \A ck \in loop_and_post_loop_operands :
              LET dep == deps_of(ck[1])[ck[2]]
              IN  /\ dep.producers_idx = <<>>
                  /\ ~(dep.is_local \/ dep.is_interloop \/ dep.is_loop_invariant
                        \/ dep.is_post_loop)

\* The units of the program that write a register.
units_writing == {u \in all_units : unit_at(vliw.program, u).dest_register \notin {None, -1}}

\* C19: a bundle sequence handed to the output has gone through the register
\* renaming, and through the compression of the body when it is the loop.pip
\* schedule of a program with a loop body: every destination has its new name
\* and the body is II bundles long.
C19_OutputIsRenamedAndCompressed ==
    pc = "written" =>
        /\ \A u \in units_writing :
              LET unit == unit_at(vliw.program, u)
              IN  /\ unit.risc_idx \in DOMAIN renamer.renamed_dest_register
                  /\ unit.regs[1] = renamer.renamed_dest_register[unit.risc_idx]
        /\ (is_pip /\ BB1_indices # {}) =>
              \A u \in all_units :
                  unit_at(vliw.program, u).risc_idx \in BB1_indices =>
                      unit_at(vliw.program, u).pred # <<>>

\* schedule_loopless_instructions, the loop over the instructions start..stop-1
\* of a block (and the first loop of schedule_loop_pip_instructions): the program
\* after it and the exception that ended it.
RECURSIVE schedule_loopless_instructions(_, _, _, _, _)
schedule_loopless_instructions(v, start, stop, start_pos, ii_opt) ==
    IF start >= stop THEN [raised |-> "", vliw |-> v]
    ELSE LET r == schedule_risc_instruction(v, start, start_pos, ii_opt)
         IN  IF r.raised # "" THEN r
             ELSE schedule_loopless_instructions(r.vliw, start + 1, stop, start_pos, ii_opt)

\* The empty VliwProgram after the scheduling of BB0.
scheduled_BB0 == schedule_loopless_instructions(VliwProgram, 0, risc.BB1_start, 0, None)

\* The modulo placement of BB1 with ii_arg on the scheduled BB0.
modulo_placement(ii_arg) ==
    schedule_loopless_instructions(scheduled_BB0.vliw, risc.BB1_start, risc.BB2_start,
                                   Len(scheduled_BB0.vliw.program), ii_arg)

\* The modulo placement with ii_arg is made and passes the interloop check of
\* schedule_loop_pip_instructions.
passes_interloop_check(ii_arg) ==
    /\ scheduled_BB0.raised = ""
    /\ modulo_placement(ii_arg).raised = ""
    /\ \A i \in BB1_indices : ~stops_check(modulo_placement(ii_arg).vliw, i, ii_arg)

\* The number of BB1 operations of a class, and the smallest n with 2 * n >= k.
count_BB1(cls) == Cardinality({i \in BB1_indices : risc.program[i + 1].cls = cls})
half_rounded_up(k) == Min({n \in 0..k : 2 * n >= k})

\* C21: generate_loop_pip_schedule starts the search at
\* ii_lb = max(ceil(alu_count / 2), mul_count, mem_count), counted over the BB1
\* operations, and tries II = ii_lb, ii_lb + 1, ... in increasing order without
\* skipping: the II changes only after a rejected attempt, by one; the II it
\* returns is the smallest II >= ii_lb whose modulo placement passes the
\* interloop check.
C21_SearchFromLowerBoundInOrder ==
    [][LET ii_lb == Max({half_rounded_up(count_BB1("alu")), count_BB1("mul"),
                         count_BB1("mem")})
       IN  /\ (pc = "analysed" /\ pc' = "search") => ii' = ii_lb
           /\ pc = "rejected" => (pc' = "search" /\ ii' = ii + 1)
           /\ (pc \in {"search", "BB1pip", "accepted"} \/ (pc = "BB0" /\ is_pip)) => ii' = ii
           /\ (pc = "BB1pip" /\ pc' = "accepted") =>
                 /\ ii' >= ii_lb
                 /\ passes_interloop_check(ii')
                 /\ \A j \in ii_lb..(ii' - 1) : ~passes_interloop_check(j)]_vars

\* An II was accepted after two attempts were rejected, for a body of two
\* operations or more.
C21_Witness ==
    /\ is_pip /\ pc = "accepted"
    /\ ii >= ii_lower_bound + 2
    /\ Cardinality(BB1_indices) >= 2
    /\ ~passes_interloop_check(ii - 1)

\* C22: when an II attempt is rejected, the bundles, the position map and the
\* reservation set are what they were right before the BB1 placement of that
\* attempt began, which is the scheduled BB0: the BB0 bundles and positions are
\* unchanged, no BB1 operation is left in a bundle or in the position map, and
\* no reservation of the attempt is left.
C22_RejectionRestoresTheState ==
    /\ (pc = "BB1pip" /\ idx = risc.BB1_start) =>
          /\ vliw = scheduled_BB0.vliw
          /\ Len(vliw.program) = schedule_start_pos
    /\ pc = "rejected" =>
          /\ vliw.program = scheduled_BB0.vliw.program
          /\ vliw.risc_pos_to_vliw_pos = scheduled_BB0.vliw.risc_pos_to_vliw_pos
          /\ vliw.unavailable_slots = scheduled_BB0.vliw.unavailable_slots
          /\ vliw.unavailable_slots = {}
          /\ Len(vliw.program) = schedule_start_pos
          /\ DOMAIN pos_of = 0..(risc.BB1_start - 1)
          /\ \A u \in all_units : unit_at(vliw.program, u).risc_idx \notin BB1_indices

\* An attempt on a program with operations in BB0 was rejected, after it had
\* placed two BB1 operations in two bundles and reserved their slots.
C22_Witness ==
    /\ pc = "rejected"
    /\ risc.BB1_start >= 1
    /\ Cardinality(BB1_indices) >= 2
    /\ Len(modulo_placement(ii).vliw.program) >= Len(vliw.program) + 2
    /\ Cardinality(modulo_placement(ii).vliw.unavailable_slots) >= 2

\* The occupied slots <<bundle, slot>> of the loop body of v.
body_units(v) ==
    {u \in (v.start_loop..(v.end_loop - 1)) \X DOMAIN VliwInstruction :
        v.program[u[1] + 1][u[2]] # <<>>}

\* No two operations of the body of v are in the same slot of bundles whose
\* offsets from start_loop are congruent modulo II.
conflict_free(v) ==
    \A u1, u2 \in body_units(v) :
        (u1 # u2 /\ u1[2] = u2[2]) =>
            (u1[1] - v.start_loop) % v.ii # (u2[1] - v.start_loop) % v.ii

\* C23: in an accepted modulo schedule no two BB1 operations occupy the same slot
\* in bundles whose offsets from start_loop are congruent modulo II, also when
\* start_loop was advanced past leading empty bundles and after the prologue
\* bundle was inserted; the compression never finds the slot of a compressed
\* bundle taken (its assertions never fail) and keeps every BB1 operation.
C23_ModuloPlacementIsConflictFree ==
    /\ err # "AssertionError in compress_loop_body"
    /\ (is_pip /\ BB1_indices # {} /\ pc \in {"accepted", "BB2", "renamed", "written"}) =>
          /\ conflict_free(vliw)
          /\ \A i \in BB1_indices : \E u \in body_units(vliw) :
                unit_at(vliw.program, u).risc_idx = i
    /\ (is_pip /\ BB1_indices # {} /\ pc = "renamed") =>
          /\ conflict_free(place_prologue(vliw))
          /\ \A bundle_pos \in 0..(vliw.ii - 1), slot \in DOMAIN VliwInstruction :
                Cardinality(folded(place_prologue(vliw), bundle_pos, slot)) <= 1
    /\ (is_pip /\ BB1_indices # {} /\ pc = "done") =>
          \A i \in BB1_indices : Cardinality(slots_holding(i)) = 1

\* A compressed body of two stages whose start was advanced past empty bundles
\* and in which the reservations moved an operation: without them its bundle
\* would be congruent to the bundle of an operation in the same slot.
C23_Witness ==
    /\ is_pip /\ pc = "done"
    /\ vliw.no_stages >= 2
    /\ loop_tag > Len(scheduled_BB0.vliw.program)
    /\ \E i, j \in BB1_indices :
          /\ i < j
          /\ risc.program[i + 1].cls = risc.program[j + 1].cls
          /\ pos_of[j] > start_after_deps(modulo_placement(ii).vliw, j, 0)
          /\ (start_after_deps(modulo_placement(ii).vliw, j, 0) - pos_of[i]) % ii = 0

\* C24: after compress_loop_body has replaced the body by the compressed
\* bundles, the loop is II bundles long: end_loop = start_loop + II, the only
\* BRANCH slot that is not empty is in bundle end_loop - 1, and its text is
\* `loop.pip t` with t = start_loop.
C24_CompressedLoopSpan ==
    (is_pip /\ pc = "done" /\ BB1_indices # {}) =>
        /\ vliw.end_loop = vliw.start_loop + vliw.ii
        /\ branch_bundles = {vliw.end_loop - 1}
        /\ \A b \in branch_bundles :
              /\ vliw.program[b + 1].branch[1].op = "loop.pip"
              /\ vliw.program[b + 1].branch[1].regs = <<vliw.start_loop>>

\* The ALU slots <<bundle, slot>> of v that hold a unit with the text op.
alus_holding(v, op) ==
    {u \in (0..(Len(v.program) - 1)) \X {"alu0", "alu1"} :
        v.program[u[1] + 1][u[2]] # <<>> /\ v.program[u[1] + 1][u[2]][1].op = op}

\* All the slots <<bundle, slot>> of v that hold a unit with the text op.
slots_holding_op(v, op) ==
    {u \in (0..(Len(v.program) - 1)) \X DOMAIN VliwInstruction :
        v.program[u[1] + 1][u[2]] # <<>> /\ v.program[u[1] + 1][u[2]][1].op = op}

\* The number of free ALU slots of the bundle before the body of v.
free_alus_before_loop(v) ==
    IF v.start_loop = 0 THEN 0
    ELSE Cardinality({slot \in {"alu0", "alu1"} : v.program[v.start_loop][slot] = <<>>})

\* C25: for a program with a loop body, compress_loop_body emits one
\* `mov p32, true` and one `mov EC, S - 1`, each in an ALU slot of a bundle before
\* start_loop: the free ALU slots of bundle start_loop - 1 first, the rest in one
\* bundle inserted right before the loop; no occupied slot is overwritten; with
\* a bundle inserted start_loop and end_loop grow by one and the target of the
\* branch is the new start_loop, without one they are unchanged.
C25_PrologueMoves ==
    [][(pc = "renamed" /\ pc' = "done" /\ BB1_indices # {}) =>
          LET free == free_alus_before_loop(vliw)
              moves == slots_holding_op(vliw', "mov p32, true")
                       \cup slots_holding_op(vliw', "mov EC")
              before == vliw.start_loop - 1
          IN  /\ Cardinality(slots_holding_op(vliw', "mov p32, true")) = 1
              /\ Cardinality(slots_holding_op(vliw', "mov EC")) = 1
              /\ Cardinality(alus_holding(vliw', "mov p32, true")) = 1
              /\ Cardinality(alus_holding(vliw', "mov EC")) = 1
              /\ \A u \in slots_holding_op(vliw', "mov EC") :
                    unit_at(vliw'.program, u).regs = <<vliw.no_stages - 1>>
              /\ \A u \in moves : u[1] < vliw'.start_loop
              /\ Cardinality({u \in moves : u[1] = before}) = free
              /\ \A u \in moves : u[1] # before => u[1] = vliw.start_loop
              /\ \A b \in 0..before, slot \in DOMAIN VliwInstruction :
                    vliw.program[b + 1][slot] # <<>> =>
                        vliw'.program[b + 1][slot] = vliw.program[b + 1][slot]
              /\ IF free < 2
                 THEN /\ vliw'.start_loop = vliw.start_loop + 1
                      /\ vliw'.end_loop = vliw.end_loop + 1
                      /\ \A slot \in DOMAIN VliwInstruction :
                            <<vliw.start_loop, slot>> \in moves
                                \/ vliw'.program[vliw.start_loop + 1][slot] = <<>>
                 ELSE /\ vliw'.start_loop = vliw.start_loop
                      /\ vliw'.end_loop = vliw.end_loop
              /\ \A b \in 1..Len(vliw'.program) :
                    vliw'.program[b].branch # <<>> =>
                        vliw'.program[b].branch[1].regs = <<vliw'.start_loop>>]_vars

\* After the compression: `mov EC` went to the one free ALU of the last BB0
\* bundle and `mov p32, true` is alone in the bundle inserted before the loop.
C25_Witness ==
    /\ is_pip /\ pc = "done" /\ BB1_indices # {}
    /\ vliw.start_loop >= 2
    /\ alus_holding(vliw, "mov EC") = {<<vliw.start_loop - 2, "alu1">>}
    /\ vliw.program[vliw.start_loop - 1].alu0 # <<>>
    /\ vliw.program[vliw.start_loop - 1].alu0[1].risc_idx \in 0..(risc.BB1_start - 1)
    /\ vliw.program[vliw.start_loop] =
          [VliwInstruction EXCEPT !.alu0 = vliw.program[vliw.start_loop].alu0]
    /\ alus_holding(vliw, "mov p32, true") = {<<vliw.start_loop - 1, "alu0">>}

\* The dependency analysis has ended without an error.
analysis_done == pc \notin {"start", "loaded"} /\ err # "AssertionError in perform_dependency_analysis"

\* The operations before c, in the block of c, that write register reg_tag.
earlier_writers_in_block(c, reg_tag) ==
    {p \in block_start(block_of(c))..(c - 1) : dest_of(p) = reg_tag}

\* C26: for a consumer in BB1 (in BB2), the local producer the dependency
\* analysis chooses is the nearest earlier operation of the block of the consumer
\* whose destination is the register tag of the operand: a dependency is local
\* exactly when there is such an operation, its producer is the last of them,
\* never an operation of another block, and has a smaller index than the
\* consumer.
C26_LocalProducerInOwnBlock ==
    analysis_done =>
        \A c \in risc.BB1_start..(Len(risc.program) - 1) :
            \A k \in 1..Len(deps_of(c)) :
                LET dep == deps_of(c)[k]
                    writers == earlier_writers_in_block(c, dep.reg_tag)
                IN  /\ dep.is_local =>
                          /\ writers # {}
                          /\ dep.producers_idx = <<Max(writers)>>
                          /\ block_of(first_producer(dep)) = block_of(c)
                          /\ first_producer(dep) < c
                    /\ writers # {} => dep.is_local

\* The operations of BB1 after c, and the operations of BB0, that write reg_tag.
later_BB1_writers(c, reg_tag) ==
    {p \in (c + 1)..(risc.BB2_start - 1) : dest_of(p) = reg_tag}
BB0_writers(reg_tag) == {p \in 0..(risc.BB1_start - 1) : dest_of(p) = reg_tag}
BB1_writers(reg_tag) == {p \in BB1_indices : dest_of(p) = reg_tag}

\* C27: for an operand of a BB1 consumer without a local producer: when an
\* operation of BB1 after the consumer writes the tag, the dependency is
\* interloop and its producers are the last such writer, followed by the nearest
\* BB0 writer when there is one (the first index then is greater than the
\* second); when no operation of BB1 after the consumer writes the tag, the
\* dependency is not interloop, even when BB0 writes the tag.
C27_InterloopProducers ==
    analysis_done =>
        \A c \in BB1_indices :
            \A k \in 1..Len(deps_of(c)) :
                LET dep == deps_of(c)[k]
                    later == later_BB1_writers(c, dep.reg_tag)
                    in_BB0 == BB0_writers(dep.reg_tag)
                IN  earlier_writers_in_block(c, dep.reg_tag) = {} =>
                        IF later # {}
                        THEN /\ dep.is_interloop
                             /\ dep.producers_idx =
                                    IF in_BB0 = {} THEN <<Max(later)>>
                                    ELSE <<Max(later), Max(in_BB0)>>
                             /\ Len(dep.producers_idx) = 2 =>
                                    dep.producers_idx[1] > dep.producers_idx[2]
                        ELSE ~dep.is_interloop

\* The number of kinds a dependency has.
kinds(dep) ==
    Cardinality({t \in {"local", "interloop", "loop_invariant", "post_loop"} :
        \/ t = "local" /\ dep.is_local
        \/ t = "interloop" /\ dep.is_interloop
        \/ t = "loop_invariant" /\ dep.is_loop_invariant
        \/ t = "post_loop" /\ dep.is_post_loop})

\* C28: for an operand of a BB2 consumer without a local producer in BB2: when
\* an operation of BB1 writes the tag, the dependency is post-loop on the last
\* BB1 operation that writes it; otherwise, when an operation of BB0 writes the
\* tag, it is loop-invariant on the last BB0 operation that writes it.  Every
\* dependency that has a producer has one kind and one producer, or, when it is
\* interloop, at most two producers.
C28_PostLoopAndLoopInvariantProducers ==
    analysis_done =>
        /\ \A c \in risc.BB2_start..(Len(risc.program) - 1) :
              \A k \in 1..Len(deps_of(c)) :
                  LET dep == deps_of(c)[k]
                      in_BB1 == BB1_writers(dep.reg_tag)
                      in_BB0 == BB0_writers(dep.reg_tag)
                  IN  earlier_writers_in_block(c, dep.reg_tag) = {} =>
                          IF in_BB1 # {}
                          THEN dep.is_post_loop /\ dep.producers_idx = <<Max(in_BB1)>>
                          ELSE in_BB0 # {} =>
                                  /\ dep.is_loop_invariant
                                  /\ dep.producers_idx = <<Max(in_BB0)>>
        /\ \A c \in 0..(Len(risc.program) - 1) :
              \A k \in 1..Len(deps_of(c)) :
                  LET dep == deps_of(c)[k]
                  IN  dep.producers_idx # <<>> =>
                          /\ kinds(dep) = 1
                          /\ IF dep.is_interloop THEN Len(dep.producers_idx) <= 2
                             ELSE Len(dep.producers_idx) = 1

\* rename_loop has renamed the schedule.
renamed_loop == ~is_pip /\ pc \in {"movs", "done"}

\* The place of a slot in the order ALU0, ALU1, MUL, MEM, BRANCH.
slot_rank(slot) ==
    IF slot = "alu0" THEN 0 ELSE IF slot = "alu1" THEN 1 ELSE IF slot = "mul" THEN 2
    ELSE IF slot = "mem" THEN 3 ELSE 4

\* Slot u1 comes before slot u2 in the order of the bundles and, inside a bundle,
\* of the slots.
comes_before(u1, u2) ==
    u1[1] < u2[1] \/ (u1[1] = u2[1] /\ slot_rank(u1[2]) < slot_rank(u2[2]))

\* The units of scheduled operations whose destination is a register that is
\* not special.
units_to_name ==
    {u \in all_units :
        /\ unit_at(vliw.program, u).risc_idx \in 0..(Len(risc.program) - 1)
        /\ unit_at(vliw.program, u).dest_register \notin {None, -1}}

\* C29: rename_loop gives the non-rotating names 1, 2, ..., in the order of the
\* bundles and inside a bundle in the order of the slots, to the scheduled
\* operations whose destination is not special: each of them has one name, which
\* is in its text, no two have the same name, and the operations that write LC
\* or EC and the operations without a destination have none.
C29_ConsecutiveNonRotatingNames ==
    renamed_loop =>
        LET renamed == renamer.renamed_dest_register
            name(u) == renamed[unit_at(vliw.program, u).risc_idx]
        IN  /\ DOMAIN renamed = {unit_at(vliw.program, u).risc_idx : u \in units_to_name}
            /\ \A i \in DOMAIN renamed : Cardinality(slots_holding(i)) = 1
            /\ {name(u) : u \in units_to_name} = 1..Cardinality(units_to_name)
            /\ \A u1, u2 \in units_to_name :
                  /\ u1 # u2 => name(u1) # name(u2)
                  /\ comes_before(u1, u2) => name(u1) < name(u2)
            /\ \A u \in units_to_name : unit_at(vliw.program, u).regs[1] = name(u)
            /\ \A i \in 0..(Len(risc.program) - 1) :
                  risc.program[i + 1].dest_register \in {None, -1} => i \notin DOMAIN renamed

\* rename_loop has named three operations, and an operation that is later in the
\* program but in an earlier bundle than another has the smaller name.
C29_Witness ==
    /\ renamed_loop
    /\ Cardinality(units_to_name) >= 3
    /\ \E i, j \in DOMAIN renamer.renamed_dest_register :
          /\ i < j
          /\ pos_of[j] < pos_of[i]
          /\ renamer.renamed_dest_register[j] < renamer.renamed_dest_register[i]

\* The operands <<c, reg_tag>> of the scheduled operations that have no producer.
initial_value_operands ==
    {ct \in (DOMAIN pos_of) \X (1..3) :
        \E k \in 1..Len(deps_of(ct[1])) :
            /\ deps_of(ct[1])[k].reg_tag = ct[2]
            /\ deps_of(ct[1])[k].producers_idx = <<>>}

\* The names rename_loop has given to destinations.
destination_names ==
    {renamer.renamed_dest_register[i] : i \in DOMAIN renamer.renamed_dest_register}

\* C30: in the renaming of the `loop` schedule every operand whose dependency has
\* a producer reads the new name of the destination of the last listed producer
\* (of the BB0 producer for an interloop dependency with two producers); every
\* operand without a producer reads a fresh non-rotating name, which is no
\* destination name and the name of no other operand without a producer.
C30_LoopOperandNames ==
    renamed_loop =>
        /\ \A c \in DOMAIN pos_of :
              \A k \in 1..Len(deps_of(c)) :
                  LET dep == deps_of(c)[k]
                      read == operand_registers(c, dep.reg_tag)
                  IN  /\ Cardinality(read) = 1
                      /\ dep.producers_idx # <<>> =>
                            read = {renamer.renamed_dest_register[last_producer(dep)]}
                      /\ Len(dep.producers_idx) = 2 =>
                            /\ dep.is_interloop
                            /\ last_producer(dep) < risc.BB1_start
                      /\ dep.producers_idx = <<>> =>
                            \A reg \in read :
                                /\ reg \notin destination_names
                                /\ reg >= 1
                                /\ reg < renamer.next_free_non_rotating_register
        /\ \A ct1, ct2 \in initial_value_operands :
              ct1 # ct2 =>
                  operand_registers(ct1[1], ct1[2]) \cap operand_registers(ct2[1], ct2[2]) = {}

\* A renamed `loop` schedule with an interloop operand of two producers whose
\* names differ, and with two operands without a producer.
C30_Witness ==
    /\ renamed_loop
    /\ Cardinality(initial_value_operands) >= 2
    /\ \E c \in DOMAIN pos_of : \E k \in 1..Len(deps_of(c)) :
          /\ Len(deps_of(c)[k].producers_idx) = 2
          /\ first_producer(deps_of(c)[k]) # last_producer(deps_of(c)[k])

\* The fix-ups in final_movs of renamer r.
recorded_fixups(r) == {r.final_movs[k] : k \in 1..Len(r.final_movs)}

\* The dependencies <<c, k>> of the scheduled operations that have two producers.
two_producer_dependencies ==
    {ck \in (DOMAIN pos_of) \X (1..2) :
        ck[2] <= Len(deps_of(ck[1])) /\ Len(deps_of(ck[1])[ck[2]].producers_idx) = 2}

\* The fix-up of a dependency with two producers, the first listed in BB1 and the
\* last in BB0, when the earliest bundle is counted from operation p.
fixup_counted_from(v, r, dep, p) ==
    <<Max({v.risc_pos_to_vliw_pos[p] + (IF risc.program[p + 1].cls = "mul" THEN 3 ELSE 1),
           v.end_loop - 1}),
      r.renamed_dest_register[last_producer(dep)],
      r.renamed_dest_register[first_producer(dep)]>>

\* C31 as stated: rename_loop records a fix-up exactly for each interloop
\* dependency that has two producers, as the tuple (earliest_cycle,
\* renamed(bb0 producer), renamed(bb1 producer)) with earliest_cycle =
\* max(bundle(bb0 producer) + latency(bb0 producer), end_loop - 1).
C31_FixupsCountedFromBB0Producer ==
    [][(~is_pip /\ pc = "BB2" /\ pc' = "movs") =>
          recorded_fixups(renamer') =
              {fixup_counted_from(vliw, renamer', deps_of(ck[1])[ck[2]],
                                  last_producer(deps_of(ck[1])[ck[2]]))
                  : ck \in two_producer_dependencies}]_vars

\* C31, amended: rename_loop records a fix-up exactly for each interloop
\* dependency that has two producers, once, as the tuple (earliest_cycle,
\* renamed(bb0 producer), renamed(bb1 producer)) with earliest_cycle =
\* max(bundle(bb1 producer) + latency(bb1 producer), end_loop - 1), the bb1
\* producer being the first listed and the bb0 producer the last listed; a
\* dependency with one producer or none records no fix-up, and only interloop
\* dependencies have two producers.
C31_FixupsRecorded ==
    [][(~is_pip /\ pc = "BB2" /\ pc' = "movs") =>
          /\ recorded_fixups(renamer') =
                {fixup_counted_from(vliw, renamer', deps_of(ck[1])[ck[2]],
                                    first_producer(deps_of(ck[1])[ck[2]]))
                    : ck \in two_producer_dependencies}
          /\ Len(renamer'.final_movs) = Cardinality(recorded_fixups(renamer'))
          /\ \A ck \in two_producer_dependencies :
                /\ deps_of(ck[1])[ck[2]].is_interloop
                /\ last_producer(deps_of(ck[1])[ck[2]]) < risc.BB1_start
          /\ vliw'.end_loop = vliw.end_loop]_vars

\* rename_loop has recorded a fix-up for a body of two operations: the result of
\* the bb1 producer comes after the last bundle of the body, and the names of
\* the two producers differ.
C31_Witness ==
    /\ ~is_pip /\ pc = "movs"
    /\ Cardinality(BB1_indices) >= 2
    /\ renamer.final_movs # <<>>
    /\ renamer.final_movs[1][1] >= vliw.end_loop
    /\ renamer.final_movs[1][2] # renamer.final_movs[1][3]

\* The mov units <<bundle, slot>> of program that rename_loop has placed.
fixup_units(program) ==
    {u \in (0..(Len(program) - 1)) \X DOMAIN VliwInstruction :
        program[u[1] + 1][u[2]] # <<>> /\ program[u[1] + 1][u[2]][1].op = "mov"}

\* C32: for every recorded fix-up the insertion step of rename_loop ends: while
\* earliest_cycle >= end_loop it inserts one fresh bundle at end_loop and moves
\* the branch into it, and then it places exactly one `mov x{bb0_renamed},
\* x{bb1_renamed}` in ALU0, else ALU1, of a bundle b with
\* earliest_cycle <= b <= end_loop - 1, also when both ALU slots of the candidate
\* bundle are occupied.
C32_FixupInsertionTerminates ==
    [][(~is_pip /\ pc = "movs" /\ renamer.final_movs # <<>>) =>
          LET mov == Head(renamer.final_movs)
              e == vliw.end_loop
          IN  IF mov[1] >= e
              THEN /\ pc' = "movs" /\ renamer' = renamer
                   /\ vliw'.end_loop = e + 1
                   /\ Len(vliw'.program) = Len(vliw.program) + 1
                   /\ SubSeq(vliw'.program, 1, e - 1) = SubSeq(vliw.program, 1, e - 1)
                   /\ vliw'.program[e] = [vliw.program[e] EXCEPT !.branch = <<>>]
                   /\ vliw'.program[e + 1] =
                        [VliwInstruction EXCEPT !.branch = vliw.program[e].branch]
                   /\ SubSeq(vliw'.program, e + 2, Len(vliw'.program))
                        = SubSeq(vliw.program, e + 1, Len(vliw.program))
              ELSE /\ pc' = "movs"
                   /\ renamer'.final_movs = Tail(renamer.final_movs)
                   /\ vliw'.end_loop = e
                   /\ \E u \in fixup_units(vliw'.program) \ fixup_units(vliw.program) :
                        /\ fixup_units(vliw'.program) = fixup_units(vliw.program) \cup {u}
                        /\ mov[1] <= u[1] /\ u[1] <= e - 1
                        /\ u[2] \in {"alu0", "alu1"}
                        /\ u[2] = "alu1" => vliw.program[u[1] + 1].alu0 # <<>>
                        /\ vliw.program[u[1] + 1][u[2]] = <<>>
                        /\ unit_at(vliw'.program, u).regs = <<mov[2], mov[3]>>
                        /\ vliw'.program =
                             [vliw.program EXCEPT ![u[1] + 1][u[2]] = vliw'.program[u[1] + 1][u[2]]]]_vars

\* The operations that are the producer of a loop-invariant dependency.
loop_invariant_producers ==
    {p \in 0..(Len(risc.program) - 1) :
        \E c \in 0..(Len(risc.program) - 1) : \E k \in 1..Len(deps_of(c)) :
            deps_of(c)[k].is_loop_invariant /\ first_producer(deps_of(c)[k]) = p}

\* C33: after the pipelined renaming, every BB0 operation p that is the second
\* producer of an interloop dependency whose first producer q is in BB1, and
\* that is no producer of a loop-invariant dependency, has the name
\* renamed(q) + 1 - stage(q), with the stage of q and of no other operation.
C33_BB0InterloopProducerName ==
    renamed_pip =>
        \A c \in BB1_indices :
            \A k \in 1..Len(deps_of(c)) :
                LET dep == deps_of(c)[k]
                    q == first_producer(dep)
                    p == last_producer(dep)
                IN  (/\ dep.is_interloop /\ Len(dep.producers_idx) = 2
                     /\ q \in BB1_indices /\ p < risc.BB1_start
                     /\ p \notin loop_invariant_producers) =>
                        /\ p \in DOMAIN renamer.renamed_dest_register
                        /\ renamer.renamed_dest_register[p] =
                              renamer.renamed_dest_register[q] + 1 - stage_of(q)

\* The earliest cycle of operation i on v from start_pos on, counted over its
\* dependencies that are not interloop.
earliest_without_interloop(v, i, start_pos) ==
    LET set == {k \in 1..Len(deps_of(i)) :
                    LET dep == deps_of(i)[k]
                    IN  dep.is_local \/ dep.is_loop_invariant \/ dep.is_post_loop}
        p(k) == last_producer(deps_of(i)[k])
    IN  Max({start_pos} \cup
            {v.risc_pos_to_vliw_pos[p(k)] + (IF risc.program[p(k) + 1].cls = "mul" THEN 3 ELSE 1)
                : k \in set})

\* C34: in the placement of a BB1 operation, in list mode and in modulo mode, an
\* operand with an interloop dependency contributes nothing to the earliest
\* cycle e' of its consumer: the operation goes to the first bundle with a slot
\* for it from the e' of its other dependencies on, and the placement never
\* reads the position of an operation that has not been placed (no KeyError).
C34_InterloopSkippedInPlacement ==
    [][(pc \in {"BB1", "BB1pip"} /\ idx < risc.BB2_start) =>
          /\ err' # "KeyError in schedule_risc_instruction"
          /\ pc' = pc =>
                pos_of'[idx] =
                    first_possible_pos(vliw, risc.program[idx + 1],
                        earliest_without_interloop(vliw, idx, schedule_start_pos),
                        schedule_start_pos, IF pc = "BB1" THEN None ELSE ii)]_vars

\* The interloop pairs <<consumer, producer>>: the producer is the first listed
\* of an interloop dependency of a BB1 consumer.
interloop_pairs ==
    {cp \in BB1_indices \X (0..(Len(risc.program) - 1)) :
        \E k \in 1..Len(deps_of(cp[1])) :
            deps_of(cp[1])[k].is_interloop /\ first_producer(deps_of(cp[1])[k]) = cp[2]}

\* position(producer) + latency(producer) - position(consumer) of a pair.
distance_needed(cp) ==
    pos_of[cp[2]] + (IF risc.program[cp[2] + 1].cls = "mul" THEN 3 ELSE 1) - pos_of[cp[1]]

\* The length of the body after list scheduling: from start_loop to the last
\* bundle that holds a BB1 operation.
list_scheduled_length == Max({pos_of[i] : i \in BB1_indices}) + 1 - vliw.start_loop

\* The slots <<bundle, slot>> other than BRANCH that hold an operation.
operation_units ==
    {u \in all_units : u[2] # "branch"}

\* C35: in the `loop` schedule the body is max(L, ii_req) bundles long after
\* fix_interloop_dependencies, L being its length after list scheduling and
\* ii_req the maximum over the interloop pairs of
\* position(producer) + latency(producer) - position(consumer); the widening
\* leaves start_loop, the positions and the slots of all operations unchanged,
\* and the branch `loop start_loop` is in the last bundle of the body only.
C35_WidenedBodyLength ==
    [][(~is_pip /\ has_loop) =>
          /\ (pc = "fix" /\ pc' = "widen") =>
                /\ vliw.end_loop - vliw.start_loop = list_scheduled_length
                /\ ii' = Max({list_scheduled_length}
                             \cup {distance_needed(cp) : cp \in interloop_pairs})
          /\ pc = "widen" =>
                /\ ii' = ii
                /\ vliw'.start_loop = vliw.start_loop
                /\ pos_of' = pos_of
                /\ operation_units' = operation_units
                /\ \A u \in operation_units :
                      unit_at(vliw.program, u)' = unit_at(vliw.program, u)
                /\ branch_bundles' = {vliw'.end_loop - 1}
                /\ vliw'.program[vliw'.end_loop].branch[1].regs = <<vliw.start_loop>>
                /\ pc' = "widen" => vliw'.end_loop = vliw.end_loop + 1
                /\ pc' = "BB2" =>
                      /\ vliw' = vliw
                      /\ vliw.end_loop - vliw.start_loop = ii
                      /\ Len(vliw.program) = vliw.end_loop]_vars

\* A `loop` schedule with operations in BB0 whose body was widened by two
\* bundles or more, to the distance an interloop pair needs.
C35_Witness ==
    /\ ~is_pip /\ has_loop /\ pc = "BB2"
    /\ risc.BB1_start >= 1
    /\ vliw.end_loop - vliw.start_loop >= list_scheduled_length + 2
    /\ \E cp \in interloop_pairs : distance_needed(cp) = vliw.end_loop - vliw.start_loop

\* A placement step of schedule_risc_instruction for operation idx that ends
\* without an exception.
placement_step ==
    /\ pc \in {"BB0", "BB1", "BB1pip", "BB2"}
    /\ pc' = pc
    /\ idx' = idx + 1

\* The slots of the class of operation i.
class_slots(i) ==
    IF risc.program[i + 1].cls = "alu" THEN {"alu0", "alu1"}
    ELSE IF risc.program[i + 1].cls = "mul" THEN {"mul"}
    ELSE IF risc.program[i + 1].cls = "mem" THEN {"mem"} ELSE {}

\* The earliest cycle of operation i from cycle e on: after the last listed
\* producer of every dependency that has a kind.
earliest_cycle(i, e) ==
    Max({e} \cup
        {pos_of[last_producer(deps_of(i)[k])]
            + (IF risc.program[last_producer(deps_of(i)[k]) + 1].cls = "mul" THEN 3 ELSE 1)
            : k \in {k \in 1..Len(deps_of(i)) : kinds(deps_of(i)[k]) >= 1}})

\* Slot `slot` of bundle b can take an operation: it is empty and, in modulo
\* mode, the pair ((b - loop_start) mod II, slot) is not reserved.
slot_is_free(b, slot) ==
    /\ b >= Len(vliw.program) \/ vliw.program[b + 1][slot] = <<>>
    /\ pc = "BB1pip" => <<(b - schedule_start_pos) % ii, slot>> \notin vliw.unavailable_slots

schedule_finished ==
    has_loop /\ idx = Len(risc.program) /\ pc \in {"BB2", "renamed", "written"}

\* C37: in every finished schedule of a program with a loop the blocks do not
\* interleave: every BB0 operation is in a bundle before start_loop, every BB1
\* operation in a bundle of [start_loop, end_loop), every BB2 operation in a
\* bundle from end_loop on; in the pipelined schedule the stage of every BB1
\* operation is in [0, S), and no assertion of get_stage fails.
C37_BlocksDoNotInterleave ==
    /\ schedule_finished =>
          /\ DOMAIN pos_of = 0..(Len(risc.program) - 1)
          /\ \A i \in DOMAIN pos_of :
                /\ Cardinality(slots_holding(i)) = 1
                /\ \A u \in slots_holding(i) : u[1] = pos_of[i]
                /\ i < risc.BB1_start => pos_of[i] < vliw.start_loop
                /\ i \in BB1_indices =>
                      vliw.start_loop <= pos_of[i] /\ pos_of[i] < vliw.end_loop
                /\ i >= risc.BB2_start => pos_of[i] >= vliw.end_loop
          /\ is_pip =>
                \A i \in BB1_indices : 0 <= stage_of(i) /\ stage_of(i) < vliw.no_stages
    /\ err # "AssertionError in get_stage"

\* The S + 1 consecutive rotating names that renaming reserves for the BB1
\* producer p of a pipelined schedule.
reserved_block(p) ==
    renamer.renamed_dest_register[p]..(renamer.renamed_dest_register[p] + vliw.no_stages)

\* The BB1 operations that the pipelined renaming gave a rotating name.
renamed_BB1_producers ==
    {p \in BB1_indices : p \in DOMAIN renamer.renamed_dest_register}

\* The operands rewritten from a producer in BB1: the pairs of a consumer and
\* one of its local, interloop or post-loop dependencies whose first listed
\* producer is a renamed operation of BB1.
operands_reading_BB1 ==
    {cd \in {<<c, k>> : c \in DOMAIN pos_of, k \in 1..MaxLen} :
        /\ cd[2] <= Len(deps_of(cd[1]))
        /\ LET dep == deps_of(cd[1])[cd[2]]
           IN  /\ dep.is_local \/ dep.is_interloop \/ dep.is_post_loop
               /\ first_producer(dep) \in renamed_BB1_producers}

\* C38: after the pipelined renaming, every rewritten operand that reads a BB1
\* producer p through a local, interloop or post-loop dependency is
\* renamed(p) + k with 0 <= k <= S: it is one of the S + 1 names reserved for p
\* and none of the names reserved for another BB1 producer.
C38_OperandInsideProducerBlock ==
    renamed_pip =>
        \A cd \in operands_reading_BB1 :
            LET dep == deps_of(cd[1])[cd[2]]
                p == first_producer(dep)
            IN  \A reg \in operand_registers(cd[1], dep.reg_tag) :
                    /\ reg \in reserved_block(p)
                    /\ \A q \in renamed_BB1_producers \ {p} :
                          reg \notin reserved_block(q)

\* A renamed pipelined schedule of at least two stages with two renamed
\* producers in the body, in which an operand reads the last of the S + 1 names
\* of its producer.
C38_Witness ==
    /\ renamed_pip
    /\ vliw.no_stages >= 2
    /\ Cardinality(renamed_BB1_producers) >= 2
    /\ \E cd \in operands_reading_BB1 :
          LET dep == deps_of(cd[1])[cd[2]]
          IN  \E reg \in operand_registers(cd[1], dep.reg_tag) :
                  reg = renamer.renamed_dest_register[first_producer(dep)] + vliw.no_stages

\* The pairs <<p, q>> of a BB0 operation p and its BB1 partner q: the second
\* and the first producer of an interloop dependency of the body, p being no
\* producer of a loop-invariant dependency.
BB0_interloop_producers ==
    {pq \in (0..(Len(risc.program) - 1)) \X BB1_indices :
        /\ pq[1] < risc.BB1_start
        /\ pq[1] \notin loop_invariant_producers
        /\ \E c \in BB1_indices : \E k \in 1..Len(deps_of(c)) :
              /\ deps_of(c)[k].is_interloop
              /\ deps_of(c)[k].producers_idx = <<pq[2], pq[1]>>}

\* C39: after the pipelined renaming, the name of a BB0 interloop producer,
\* renamed(q) + 1 - stage(q) for its BB1 partner q, is at least 32 and one of
\* the S + 1 names renamed(q)..renamed(q) + S reserved for q, so it is none of
\* the names reserved for another producer of the body, whatever the stage of q.
C39_BB0InterloopNameInsidePartnerBlock ==
    renamed_pip =>
        \A pq \in BB0_interloop_producers :
            LET name == renamer.renamed_dest_register[pq[2]] + 1 - stage_of(pq[2])
            IN  /\ renamer.renamed_dest_register[pq[1]] = name
                /\ name >= FirstRotating
                /\ name \in reserved_block(pq[2])
                /\ \A r \in renamed_BB1_producers \ {pq[2]} :
                      name \notin reserved_block(r)

\* The operations whose renamed destination is the register reg.
producers_renamed(reg) ==
    {p \in DOMAIN renamer.renamed_dest_register : renamer.renamed_dest_register[p] = reg}

\* C40: in the `loop` schedule every fix-up `mov x{bb0_renamed}, x{bb1_renamed}`
\* that rename_loop has placed reads the register of one operation of BB1, the
\* bb1 producer, and is in a bundle b with b >= bundle(bb1 producer) +
\* latency(bb1 producer) and start_loop <= b <= end_loop - 1: it reads the result
\* when it is available and it is executed in every iteration.
C40_FixupAfterProducerInsideLoop ==
    (~is_pip /\ pc \in {"movs", "done", "written"}) =>
        \A u \in fixup_units(vliw.program) :
            LET b == u[1]
                bb1 == producers_renamed(unit_at(vliw.program, u).regs[2])
            IN  /\ Cardinality(bb1) = 1
                /\ bb1 \subseteq BB1_indices
                /\ \A p \in bb1 : b >= pos_of[p] + latency(risc.program[p + 1])
                /\ vliw.start_loop <= b
                /\ b <= vliw.end_loop - 1

\* A finished `loop` schedule with a fix-up mov that reads the result of a
\* multiplication of BB1 in the first bundle in which it is available, the
\* bundle of the loop branch.
C40_Witness ==
    /\ ~is_pip
    /\ pc = "done"
    /\ \E u \in fixup_units(vliw.program) :
          \E p \in producers_renamed(unit_at(vliw.program, u).regs[2]) :
              /\ risc.program[p + 1].cls = "mul"
              /\ u[1] = pos_of[p] + 3
              /\ u[1] = vliw.end_loop - 1
              /\ branch_bundles = {u[1]}

====
